---- MODULE Spec2Model ----
(***************************************************************************)
(* Model of the subscription filter of yellowstone-grpc-proto              *)
(* (plugin/filter/filter.rs) and of the canonical messages it dispatches   *)
(* (plugin/message.rs), and of the subscription session that installs the  *)
(* filter and writes its updates, as the specification describes it.       *)
(*                                                                         *)
(* A compiled Filter is built from a SubscribeRequest (Filter::new) and    *)
(* then asked, message by message, for the (names, projected message)      *)
(* pairs (Filter::get_filters) and the wire updates (Filter::get_update).  *)
(*                                                                         *)
(* Conventions: Option<T> is a sequence of length 0 (None) or 1 (Some);    *)
(* Result<T, E> is a record tagged "ok" / "err"; a panic is the record     *)
(* tagged "panic". Vec<FilterName> is modelled by the set of its names     *)
(* (its order is the iteration order of a HashMap). usize / u64 values     *)
(* live in 0 .. WordMod - 1.                                               *)
(***************************************************************************)
EXTENDS Integers, Sequences, FiniteSets, TLC

VARIABLES
    overflow_checks, \* build profile: TRUE = arithmetic overflow panics (debug)
    map_order,       \* iteration order of the HashMaps keyed by filter name
    limits,          \* FilterLimits handed to Filter::new
    request,         \* SubscribeRequest handed to Filter::new
    filter,          \* what Filter::new returned: Ok(Filter) / Err / panic
    message,         \* last message given to the dispatcher (None before)
    commitment,      \* commitment argument of that call
    pairs,           \* what Filter::get_filters yielded for it
    updates,         \* what Filter::get_update yielded for it
    session_state,   \* state of the subscription session ("Detached": no session)
    installed,       \* the compiled filter the session holds (None before)
    queue,           \* upstream messages the hub enqueued for the session
    wire,            \* frames the session wrote to the client, oldest first
    history,         \* the requests and messages the session handled, in order
    enqueued,        \* every message the hub enqueued for the session, in order
    hub,             \* the fan-out hub: its sessions and the messages it accepted
    client           \* the reference client: where it is in its retry loop

session_vars == <<session_state, installed, queue, wire, history, enqueued>>

vars == <<overflow_checks, map_order, limits, request, filter, message,
          commitment, pairs, updates, session_state, installed, queue, wire, history,
          enqueued, hub, client>>

filter_vars == <<overflow_checks, map_order, limits, request, filter, message,
                 commitment, pairs, updates>>
other_vars == <<hub, client>>

-----------------------------------------------------------------------------
(* Bounds of the model *)

\* usize and u64 are modelled modulo WordMod
WordMod == 1024
\* longest account data of the enumerated account messages
MaxDataLen == 2
\* longest accounts_data_slice list of a request
MaxSlices == 4
\* number of distinct public keys
NumPubkeys == 3
\* largest lamports balance of the enumerated account messages
MaxLamports == 2
\* longest account data of the account messages given to the data slicing
MaxSlicedLen == 6

-----------------------------------------------------------------------------
(* Option, Result, panic *)

None == <<>>
Some(x) == <<x>>
IsSome(o) == Len(o) = 1
Unwrap(o) == o[1]

Ok(v) == [tag |-> "ok", val |-> v]
Err(e) == [tag |-> "err", err |-> e]
Panic == [tag |-> "panic"]
IsOk(r) == r.tag = "ok"
\* the operator `?`: the value of an Ok goes on to F, anything else returns
Try(r, F(_)) == IF IsOk(r) THEN F(r.val) ELSE r
\* map_err
MapErr(r, e) == IF IsOk(r) THEN r ELSE Err(e)

Range(s) == {s[i] : i \in 1..Len(s)}

RECURSIVE SeqsUpTo(_, _)
SeqsUpTo(S, n) ==
    IF n = 0 THEN {<<>>}
    ELSE LET shorter == SeqsUpTo(S, n - 1)
         IN shorter \cup {Append(s, x) : s \in {t \in shorter : Len(t) = n - 1}, x \in S}

RECURSIVE Flatten(_)
Flatten(ss) == IF ss = <<>> THEN <<>> ELSE Head(ss) \o Flatten(Tail(ss))

RECURSIVE SumSeq(_)
SumSeq(s) == IF s = <<>> THEN 0 ELSE Head(s) + SumSeq(Tail(s))

\* first element of a sequence of Results that is not Ok, or Ok(values)
FirstError(rs) ==
    IF \E i \in 1..Len(rs) : ~IsOk(rs[i])
    THEN rs[CHOOSE i \in 1..Len(rs) : ~IsOk(rs[i]) /\ \A j \in 1..(i - 1) : IsOk(rs[j])]
    ELSE Ok([i \in 1..Len(rs) |-> rs[i].val])

-----------------------------------------------------------------------------
(* Domains *)

Names == {"a", "b"}
Pubkeys == 1..NumPubkeys
Bytes == {0, 1}
Signatures == {"s1", "s2"}
IsizeMax == (WordMod \div 2) - 1

\* iteration of a HashMap keyed by filter name: the names of S in map order
RECURSIVE IterNames(_, _)
IterNames(S, order) ==
    IF order = <<>> THEN <<>>
    ELSE IF Head(order) \in S THEN <<Head(order)>> \o IterNames(S, Tail(order))
    ELSE IterNames(S, Tail(order))

MapOrders == {o \in [1..Cardinality(Names) -> Names] : Range(o) = Names}

-----------------------------------------------------------------------------
(* FilterLimits: the checks Filter::new calls *)

check_max(len, max) == len <= max
check_any(is_empty, any) == ~is_empty \/ any
check_pubkey_max(len, max) == len <= max
check_pubkey_reject(pubkey, set) == pubkey \notin set

Pubkey_from_str(s) == IF s \in Pubkeys THEN Ok(s) ELSE Err("InvalidPubkey")

\* Filter::decode_pubkeys: one Result per string, in order
decode_pubkeys(pubkeys, reject) ==
    [i \in 1..Len(pubkeys) |->
        LET r == Pubkey_from_str(pubkeys[i])
        IN IF ~IsOk(r) THEN r
           ELSE IF ~check_pubkey_reject(r.val, reject) THEN Err("PubkeyRejected")
           ELSE r]

\* Filter::decode_pubkeys_into_set
decode_pubkeys_into_set(pubkeys, reject) ==
    LET r == FirstError(decode_pubkeys(pubkeys, reject))
    IN IF IsOk(r) THEN Ok(Range(r.val)) ELSE r

-----------------------------------------------------------------------------
(* FilterAccountsDataSlice *)

\* the Range<usize> of one request slice; end wraps when overflow is unchecked
SliceRange(s) == [start |-> s.offset, end |-> (s.offset + s.length) % WordMod]

SliceOverflows(s) == s.offset + s.length >= WordMod

OrderBad(rs, i) == \E j \in (i + 1)..Len(rs) : rs[i].start > rs[j].start
OverlapBad(rs, i) == \E j \in 1..(i - 1) : rs[i].start < rs[j].end

\* the overlap check taken with <= : adjacent slices are refused
FilterAccountsDataSlice_new_adjacent(slices, limit, oc) ==
    IF ~check_max(Len(slices), limit) THEN Err("MaxExceeded")
    ELSE IF oc /\ \E i \in 1..Len(slices) : SliceOverflows(slices[i]) THEN Panic
    ELSE
        LET rs == [i \in 1..Len(slices) |-> SliceRange(slices[i])]
        IN IF \E i \in 1..Len(rs) : OrderBad(rs, i)
           THEN Err("CreateDataSliceOutOfOrder")
           ELSE IF \E i \in 1..Len(rs) : \E j \in 1..(i - 1) : rs[i].start <= rs[j].end
           THEN Err("CreateDataSliceOverlap")
           ELSE Ok(rs)

FilterAccountsDataSlice_new(slices, limit, oc) ==
    IF ~check_max(Len(slices), limit) THEN Err("MaxExceeded")
    ELSE IF oc /\ \E i \in 1..Len(slices) : SliceOverflows(slices[i]) THEN Panic
    ELSE
        LET rs == [i \in 1..Len(slices) |-> SliceRange(slices[i])]
            bad == {i \in 1..Len(rs) : OrderBad(rs, i) \/ OverlapBad(rs, i)}
        IN IF bad = {} THEN Ok(rs)
           ELSE LET i == CHOOSE k \in bad : \A l \in bad : k <= l
                IN IF OrderBad(rs, i) THEN Err("CreateDataSliceOutOfOrder")
                   ELSE Err("CreateDataSliceOverlap")

\* Vec::with_capacity(sum of ds.end - ds.start): Ok(capacity) or panic
SliceCapacity(rs, oc) ==
    LET lens == [i \in 1..Len(rs) |-> (rs[i].end - rs[i].start) % WordMod]
        total == SumSeq(lens)
    IN IF oc /\ ((\E i \in 1..Len(rs) : rs[i].end < rs[i].start) \/ total >= WordMod)
       THEN Panic
       ELSE IF total % WordMod > IsizeMax THEN Panic
       ELSE Ok(total % WordMod)

\* the data of FilteredMessage::as_proto_account: Ok(bytes) or panic
as_proto_account_data(data, rs, oc) ==
    IF rs = <<>> THEN Ok(data)
    ELSE IF ~IsOk(SliceCapacity(rs, oc)) THEN Panic
    ELSE IF \E i \in 1..Len(rs) : Len(data) >= rs[i].end /\ rs[i].start > rs[i].end
         THEN Panic
    ELSE Ok(Flatten([i \in 1..Len(rs) |->
                IF Len(data) >= rs[i].end
                THEN SubSeq(data, rs[i].start + 1, rs[i].end)
                ELSE <<>>]))

-----------------------------------------------------------------------------
(* FilterAccountsState: the data predicates of one accounts filter *)

MAX_FILTERS == 4
MAX_DATA_SIZE == 128
MAX_DATA_BASE58_SIZE == 175
MAX_DATA_BASE64_SIZE == 172

\* one entry of SubscribeRequestFilterAccounts.filters (a oneof, flattened)
PredMemcmp(offset, data) ==
    [kind |-> "Memcmp", offset |-> offset, data |-> data, size |-> 0,
     flag |-> FALSE, cmp |-> None]
PredDatasize(size) ==
    [kind |-> "Datasize", offset |-> 0, data |-> None, size |-> size,
     flag |-> FALSE, cmp |-> None]
PredTokenAccountState(flag) ==
    [kind |-> "TokenAccountState", offset |-> 0, data |-> None, size |-> 0,
     flag |-> flag, cmp |-> None]
PredLamports(cmp) ==
    [kind |-> "Lamports", offset |-> 0, data |-> None, size |-> 0,
     flag |-> FALSE, cmp |-> cmp]
PredNone ==
    [kind |-> "None", offset |-> 0, data |-> None, size |-> 0,
     flag |-> FALSE, cmp |-> None]
\* the memcmp data oneof: raw bytes
MemcmpBytes(bytes) == Some([enc |-> "Bytes", bytes |-> bytes])
Cmp(op, value) == Some([op |-> op, value |-> value])

EmptyState ==
    [memcmp |-> <<>>, datasize |-> None, token_account_state |-> FALSE,
     lamports |-> <<>>]

\* the memcmp data oneof: a base58 or base64 string, as the sequence of its
\* characters; a character is its digit in the alphabet of the encoding, the
\* number of digits for the base64 padding '=', and anything above for a
\* character outside the alphabet
MemcmpBase58(chars) == Some([enc |-> "Base58", bytes |-> chars])
MemcmpBase64(chars) == Some([enc |-> "Base64", bytes |-> chars])

\* bs58: bytes[lo..hi] (little-endian) times 58 plus carry: the bytes and the
\* carry out. The carry chain is cut in halves, the lower half first.
RECURSIVE MulAdd58(_, _, _, _)
MulAdd58(bytes, lo, hi, carry) ==
    IF lo > hi THEN [out |-> <<>>, carry |-> carry]
    ELSE IF lo = hi
    THEN LET v == bytes[lo] * 58 + carry
         IN [out |-> <<v % 256>>, carry |-> v \div 256]
    ELSE LET mid == (lo + hi) \div 2
             l == MulAdd58(bytes, lo, mid, carry)
             r == MulAdd58(bytes, mid + 1, hi, l.carry)
         IN IF l.carry >= 0 THEN [out |-> l.out \o r.out, carry |-> r.carry]
            ELSE l

\* bs58: one character: the number so far times 58 plus its digit
Step58(acc, digit) ==
    LET r == MulAdd58(acc, 1, Len(acc), digit)
    IN IF r.carry = 0 THEN r.out ELSE Append(r.out, r.carry)

\* bs58: the little-endian bytes of the number the digits chars[lo..hi] spell
\* after acc
RECURSIVE Digits58(_, _, _, _)
Digits58(chars, lo, hi, acc) ==
    IF lo > hi THEN acc
    ELSE IF lo = hi THEN Step58(acc, chars[lo])
    ELSE LET mid == (lo + hi) \div 2
             l == Digits58(chars, lo, mid, acc)
         IN IF Len(l) >= 0 THEN Digits58(chars, mid + 1, hi, l) ELSE l

\* the number of leading '1' characters (digit 0)
LeadingZeros(chars) ==
    IF \A i \in 1..Len(chars) : chars[i] = 0 THEN Len(chars)
    ELSE (CHOOSE i \in 1..Len(chars) :
              chars[i] # 0 /\ \A j \in 1..(i - 1) : chars[j] = 0) - 1

Reverse(s) == [i \in 1..Len(s) |-> s[Len(s) + 1 - i]]

\* bs58::decode(data).into_vec(): the big-endian bytes of the number, after one
\* zero byte for every leading '1' (digit 0)
bs58_decode(chars) ==
    IF \E i \in 1..Len(chars) : chars[i] >= 58 THEN Err("InvalidCharacter")
    ELSE Ok([i \in 1..LeadingZeros(chars) |-> 0] \o Reverse(Digits58(chars, 1, Len(chars), <<>>)))

\* base64 STANDARD: the bytes of one group of four characters
Base64Group(g) ==
    IF g[3] = 64 THEN <<g[1] * 4 + g[2] \div 16>>
    ELSE IF g[4] = 64
    THEN <<g[1] * 4 + g[2] \div 16, (g[2] % 16) * 16 + g[3] \div 4>>
    ELSE <<g[1] * 4 + g[2] \div 16, (g[2] % 16) * 16 + g[3] \div 4,
           (g[3] % 4) * 64 + g[4]>>

\* base64 STANDARD engine decode: groups of four characters, canonical padding
\* in the last group only, no trailing bits
base64_decode(chars) ==
    LET n == Len(chars) \div 4
        Group(k) == SubSeq(chars, 4 * k - 3, 4 * k)
        last == Group(n)
    IN IF Len(chars) % 4 # 0 THEN Err("InvalidLength")
       ELSE IF \E i \in 1..Len(chars) : chars[i] > 64 THEN Err("InvalidByte")
       ELSE IF \E i \in 1..Len(chars) : chars[i] = 64 /\ i < Len(chars) - 1
       THEN Err("InvalidByte")
       ELSE IF n > 0 /\ last[3] = 64 /\ last[4] # 64 THEN Err("InvalidByte")
       ELSE IF n > 0 /\ last[3] = 64 /\ last[2] % 16 # 0 THEN Err("InvalidLastSymbol")
       ELSE IF n > 0 /\ last[3] # 64 /\ last[4] = 64 /\ last[3] % 4 # 0
       THEN Err("InvalidLastSymbol")
       ELSE Ok(Flatten([k \in 1..n |-> Base64Group(Group(k))]))

\* the bytes of a memcmp literal, as FilterAccountsState::new obtains them
MemcmpData(data) ==
    IF data = None THEN Err("CreateAccountState(data for memcmp should be defined)")
    ELSE LET lit == Unwrap(data)
         IN IF lit.enc = "Bytes" THEN Ok(lit.bytes)
            ELSE IF lit.enc = "Base58" THEN
                IF Len(lit.bytes) > MAX_DATA_BASE58_SIZE
                THEN Err("CreateAccountState(data too large)")
                ELSE MapErr(bs58_decode(lit.bytes), "CreateAccountState(invalid base58)")
            ELSE
                IF Len(lit.bytes) > MAX_DATA_BASE64_SIZE
                THEN Err("CreateAccountState(data too large)")
                ELSE MapErr(base64_decode(lit.bytes), "CreateAccountState(invalid base64)")

\* the step with the decoded size test at MAX_DATA_SIZE itself
StateAdd_inclusive(this, f) ==
    IF f.kind = "Memcmp" THEN
        Try(MemcmpData(f.data),
            LAMBDA data :
                IF Len(data) >= MAX_DATA_SIZE
                THEN Err("CreateAccountState(data too large)")
                ELSE Ok([this EXCEPT !.memcmp =
                            Append(@, [offset |-> f.offset, bytes |-> data])]))
    ELSE IF f.kind = "Datasize" THEN
        IF IsSome(this.datasize)
        THEN Err("CreateAccountState(datasize used more than once)")
        ELSE Ok([this EXCEPT !.datasize = Some(f.size)])
    ELSE IF f.kind = "TokenAccountState" THEN
        IF ~f.flag
        THEN Err("CreateAccountState(token_account_state only allowed to be true)")
        ELSE Ok([this EXCEPT !.token_account_state = TRUE])
    ELSE IF f.kind = "Lamports" THEN
        IF f.cmp = None THEN Err("CreateAccountState(cmp for lamports should be defined)")
        ELSE Ok([this EXCEPT !.lamports = Append(@, Unwrap(f.cmp))])
    ELSE Err("CreateAccountState(filter should be defined)")

\* one step of the loop of FilterAccountsState::new
StateAdd(this, f) ==
    IF f.kind = "Memcmp" THEN
        Try(MemcmpData(f.data),
            LAMBDA data :
                IF Len(data) > MAX_DATA_SIZE
                THEN Err("CreateAccountState(data too large)")
                ELSE Ok([this EXCEPT !.memcmp =
                            Append(@, [offset |-> f.offset, bytes |-> data])]))
    ELSE IF f.kind = "Datasize" THEN
        IF IsSome(this.datasize)
        THEN Err("CreateAccountState(datasize used more than once)")
        ELSE Ok([this EXCEPT !.datasize = Some(f.size)])
    ELSE IF f.kind = "TokenAccountState" THEN
        IF ~f.flag
        THEN Err("CreateAccountState(token_account_state only allowed to be true)")
        ELSE Ok([this EXCEPT !.token_account_state = TRUE])
    ELSE IF f.kind = "Lamports" THEN
        IF f.cmp = None THEN Err("CreateAccountState(cmp for lamports should be defined)")
        ELSE Ok([this EXCEPT !.lamports = Append(@, Unwrap(f.cmp))])
    ELSE Err("CreateAccountState(filter should be defined)")

RECURSIVE StateFold(_, _)
StateFold(this, filters) ==
    IF filters = <<>> THEN Ok(this)
    ELSE Try(StateAdd(this, Head(filters)), LAMBDA next : StateFold(next, Tail(filters)))

FilterAccountsState_new(filters) ==
    IF Len(filters) > MAX_FILTERS THEN Err("CreateAccountStateMaxFilters")
    ELSE StateFold(EmptyState, filters)

FilterAccountsState_is_empty(st) ==
    /\ st.memcmp = <<>>
    /\ st.datasize = None
    /\ ~st.token_account_state
    /\ st.lamports = <<>>

FilterAccountsLamports_is_match(f, lamports) ==
    CASE f.op = "Eq" -> f.value = lamports
      [] f.op = "Ne" -> f.value # lamports
      [] f.op = "Lt" -> f.value < lamports
      [] f.op = "Gt" -> f.value > lamports

\* spl_token_2022 GenericTokenAccount for Account: the data is Account::LEN
\* (165) bytes long, or longer (and not Multisig::LEN, 355) with the account
\* type tag 2 at index 165, and the state byte at index 108 is not 0
TokenAccount_valid_account_data(data) ==
    /\ \/ Len(data) = 165
       \/ Len(data) > 165 /\ Len(data) # 355 /\ data[166] = 2
    /\ data[109] # 0

\* the memcmp loop of FilterAccountsState::is_match: Ok(bool) or panic
RECURSIVE MemcmpLoop(_, _, _)
MemcmpLoop(memcmp, data, oc) ==
    IF memcmp = <<>> THEN Ok(TRUE)
    ELSE
        LET offset == Head(memcmp).offset
            bytes == Head(memcmp).bytes
            sum == offset + Len(bytes)
            end == sum % WordMod
        IN IF sum >= WordMod /\ oc THEN Panic
           ELSE IF Len(data) < end THEN Ok(FALSE)
           ELSE IF offset > end THEN Panic
           ELSE IF SubSeq(data, offset + 1, end) # bytes THEN Ok(FALSE)
           ELSE MemcmpLoop(Tail(memcmp), data, oc)

FilterAccountsState_is_match(st, data, lamports, oc) ==
    IF IsSome(st.datasize) /\ Len(data) # Unwrap(st.datasize) THEN Ok(FALSE)
    ELSE IF st.token_account_state /\ ~TokenAccount_valid_account_data(data) THEN Ok(FALSE)
    ELSE IF \E i \in 1..Len(st.lamports) :
                ~FilterAccountsLamports_is_match(st.lamports[i], lamports)
         THEN Ok(FALSE)
    ELSE MemcmpLoop(st.memcmp, data, oc)

-----------------------------------------------------------------------------
(* Generic compilation of a map name -> filter *)

\* the loop `for (name, filter) in configs` with a fallible body: the first
\* error in iteration order, or Ok(name -> compiled entry)
CompileMap(configs, order, Entry(_)) ==
    LET iter == IterNames(DOMAIN configs, order)
        built == FirstError([i \in 1..Len(iter) |-> Entry(configs[iter[i]])])
    IN IF ~IsOk(built) THEN built
       ELSE Ok([n \in DOMAIN configs |->
                   built.val[CHOOSE i \in 1..Len(iter) : iter[i] = n]])

-----------------------------------------------------------------------------
(* FilterAccounts *)

\* FilterAccounts::set: TRUE when some insert into map[key] added the name
set_required(keys) ==
    \E i \in 1..Len(keys) : \A j \in 1..(i - 1) : keys[j] # keys[i]

\* the body of the loop of FilterAccounts::new for one (name, filter)
FilterAccountsEntry(f, lim) ==
    IF ~check_any(f.account = <<>> /\ f.owner = <<>>, lim.any) THEN Err("AnyNotAllowed")
    ELSE IF ~check_pubkey_max(Len(f.account), lim.account_max) THEN Err("MaxExceeded")
    ELSE IF ~check_pubkey_max(Len(f.owner), lim.owner_max) THEN Err("MaxExceeded")
    ELSE
        Try(FirstError(decode_pubkeys(f.account, lim.account_reject)), LAMBDA account :
        Try(FirstError(decode_pubkeys(f.owner, lim.owner_reject)), LAMBDA owner :
        Try(FilterAccountsState_new(f.filters), LAMBDA filters :
            Ok([nonempty_txn_signature |-> f.nonempty_txn_signature,
                account |-> account,
                owner |-> owner,
                state |-> filters]))))

\* the inverted index pubkey -> names of one dimension
KeyIndex(entries, names, dim) ==
    LET keys == UNION {Range(entries[n][dim]) : n \in names}
    IN [k \in keys |-> {n \in names : k \in Range(entries[n][dim])}]

FilterAccounts_new(configs, lim, order) ==
    IF ~check_max(Cardinality(DOMAIN configs), lim.max) THEN Err("MaxExceeded")
    ELSE
        LET Entry(f) == FilterAccountsEntry(f, lim)
            names == DOMAIN configs
        IN Try(CompileMap(configs, order, Entry), LAMBDA entries :
               Ok([nonempty_txn_signature |->
                       [n \in names |-> entries[n].nonempty_txn_signature],
                   nonempty_txn_signature_required |->
                       {n \in names : IsSome(entries[n].nonempty_txn_signature)},
                   account |-> KeyIndex(entries, names, "account"),
                   account_required |->
                       {n \in names : set_required(entries[n].account)},
                   owner |-> KeyIndex(entries, names, "owner"),
                   owner_required |->
                       {n \in names : set_required(entries[n].owner)},
                   filters |-> [n \in names |-> entries[n].state]]))

\* FilterAccountsMatch::extend
extend(map, key) == IF key \in DOMAIN map THEN map[key] ELSE {}

\* FilterAccountsMatch::match_txn_signature
match_txn_signature(fa, txn_signature) ==
    {n \in DOMAIN fa.nonempty_txn_signature :
        /\ IsSome(fa.nonempty_txn_signature[n])
        /\ Unwrap(fa.nonempty_txn_signature[n]) = IsSome(txn_signature)}

\* FilterAccountsMatch::match_data_lamports: Ok(names) or panic
match_data_lamports(fa, data, lamports, oc) ==
    LET res == [n \in DOMAIN fa.filters |->
                   FilterAccountsState_is_match(fa.filters[n], data, lamports, oc)]
    IN IF \E n \in DOMAIN res : ~IsOk(res[n]) THEN Panic
       ELSE Ok({n \in DOMAIN res : res[n].val})

\* FilterAccountsMatch::get_filters
FilterAccountsMatch_get_filters(fa, sig, account, owner, data) ==
    {n \in DOMAIN fa.filters :
        /\ ~(n \in fa.nonempty_txn_signature_required /\ n \notin sig)
        /\ ~(n \in fa.account_required /\ n \notin account)
        /\ ~(n \in fa.owner_required /\ n \notin owner)
        /\ ~(~FilterAccountsState_is_empty(fa.filters[n]) /\ n \notin data)}

\* FilterAccounts::get_filters: Ok(one pair) or panic
FilterAccounts_get_filters(fa, msg, oc) ==
    LET sig == match_txn_signature(fa, msg.account.txn_signature)
        account == extend(fa.account, msg.account.pubkey)
        owner == extend(fa.owner, msg.account.owner)
        data == match_data_lamports(fa, msg.account.data, msg.account.lamports, oc)
    IN IF ~IsOk(data) THEN Panic
       ELSE Ok(<<[names |-> FilterAccountsMatch_get_filters(fa, sig, account, owner, data.val),
                  kind |-> "Account", msg |-> msg]>>)

-----------------------------------------------------------------------------
(* FilterSlots *)

CommitmentLevels ==
    <<"Processed", "Confirmed", "Finalized", "FirstShredReceived", "Completed",
      "CreatedBank", "Dead">>

\* Option<bool>::unwrap_or_default
\* CommitmentLevel as i32
CommitmentLevel_as_i32(l) ==
    (CHOOSE i \in 1..Len(CommitmentLevels) : CommitmentLevels[i] = l) - 1

unwrap_or_default(o) == IF IsSome(o) THEN Unwrap(o) ELSE FALSE

FilterSlotsInner_new(f) ==
    [filter_by_commitment |-> unwrap_or_default(f.filter_by_commitment)]

FilterSlots_new(configs, lim) ==
    IF ~check_max(Cardinality(DOMAIN configs), lim.max) THEN Err("MaxExceeded")
    ELSE Ok([filters |-> [n \in DOMAIN configs |-> FilterSlotsInner_new(configs[n])]])

\* the gate applied to every name, whatever its flag
FilterSlots_get_filters_always_gated(fs, msg, c) ==
    <<[names |-> {n \in DOMAIN fs.filters : c = Some(msg.status)},
       kind |-> "Slot", msg |-> msg]>>

FilterSlots_get_filters(fs, msg, c) ==
    <<[names |-> {n \in DOMAIN fs.filters :
                    ~fs.filters[n].filter_by_commitment \/ c = Some(msg.status)},
       kind |-> "Slot", msg |-> msg]>>

-----------------------------------------------------------------------------
(* FilterTransactions *)

Signature_parse(s) == IF s \in Signatures THEN Ok(s) ELSE Err("InvalidSignature")

FilterTransactionsEntry(f, lim) ==
    IF ~check_any(/\ f.vote = None
                  /\ f.failed = None
                  /\ f.account_include = <<>>
                  /\ f.account_exclude = <<>>
                  /\ f.account_required = <<>>, lim.any)
    THEN Err("AnyNotAllowed")
    ELSE IF ~check_pubkey_max(Len(f.account_include), lim.account_include_max)
    THEN Err("MaxExceeded")
    ELSE IF ~check_pubkey_max(Len(f.account_exclude), lim.account_exclude_max)
    THEN Err("MaxExceeded")
    ELSE IF ~check_pubkey_max(Len(f.account_required), lim.account_required_max)
    THEN Err("MaxExceeded")
    ELSE
        LET signature == IF IsSome(f.signature) THEN Signature_parse(Unwrap(f.signature))
                         ELSE Ok(None)
            include == decode_pubkeys_into_set(f.account_include, lim.account_include_reject)
            exclude == decode_pubkeys_into_set(f.account_exclude, {})
            required == decode_pubkeys_into_set(f.account_required, {})
        IN IF ~IsOk(signature) THEN signature
           ELSE IF ~IsOk(include) THEN include
           ELSE IF ~IsOk(exclude) THEN exclude
           ELSE IF ~IsOk(required) THEN required
           ELSE Ok([vote |-> f.vote,
                    failed |-> f.failed,
                    signature |-> IF IsSome(f.signature) THEN Some(signature.val) ELSE None,
                    account_include |-> include.val,
                    account_exclude |-> exclude.val,
                    account_required |-> required.val])

FilterTransactions_new(configs, lim, filter_type, order) ==
    IF ~check_max(Cardinality(DOMAIN configs), lim.max) THEN Err("MaxExceeded")
    ELSE
        LET Entry(f) == FilterTransactionsEntry(f, lim)
            built == CompileMap(configs, order, Entry)
        IN IF ~IsOk(built) THEN built
           ELSE Ok([filter_type |-> filter_type, filters |-> built.val])

\* account_required taken as "some required key is present"
FilterTransactionsInner_matches_any_required(inner, tx) ==
    /\ ~(IsSome(inner.vote) /\ Unwrap(inner.vote) # tx.is_vote)
    /\ ~(IsSome(inner.failed) /\ Unwrap(inner.failed) # IsSome(tx.meta.err))
    /\ ~(IsSome(inner.signature) /\ inner.signature # Some(tx.signature))
    /\ ~(inner.account_include # {} /\ inner.account_include \cap tx.account_keys = {})
    /\ ~(inner.account_exclude # {} /\ inner.account_exclude \cap tx.account_keys # {})
    /\ ~(inner.account_required # {} /\ inner.account_required \cap tx.account_keys = {})

\* slice::first
first(s) == IF s = <<>> THEN None ELSE Some(s[1])

\* the closure of FilterTransactions::get_filters: does `inner` keep the name
FilterTransactionsInner_matches(inner, tx) ==
    /\ ~(IsSome(inner.vote) /\ Unwrap(inner.vote) # tx.is_vote)
    /\ ~(IsSome(inner.failed) /\ Unwrap(inner.failed) # IsSome(tx.meta.err))
    /\ ~(IsSome(inner.signature) /\ inner.signature # first(tx.transaction.signatures))
    /\ ~(inner.account_include # {} /\ inner.account_include \cap tx.account_keys = {})
    /\ ~(inner.account_exclude # {} /\ inner.account_exclude \cap tx.account_keys # {})
    /\ ~(inner.account_required # {} /\ ~(inner.account_required \subseteq tx.account_keys))

FilterTransactions_get_filters(ft, msg) ==
    <<[names |-> {n \in DOMAIN ft.filters :
                    FilterTransactionsInner_matches(ft.filters[n], msg.transaction)},
       kind |-> ft.filter_type, msg |-> msg]>>

-----------------------------------------------------------------------------
(* FilterEntries, FilterBlocksMeta *)

FilterEntries_new(configs, lim) ==
    IF ~check_max(Cardinality(DOMAIN configs), lim.max) THEN Err("MaxExceeded")
    ELSE Ok([filters |-> DOMAIN configs])

FilterEntries_get_filters(fe, msg) ==
    <<[names |-> fe.filters, kind |-> "Entry", msg |-> msg]>>

FilterBlocksMeta_new(configs, lim) ==
    IF ~check_max(Cardinality(DOMAIN configs), lim.max) THEN Err("MaxExceeded")
    ELSE Ok([filters |-> DOMAIN configs])

FilterBlocksMeta_get_filters(fb, msg) ==
    <<[names |-> fb.filters, kind |-> "BlockMeta", msg |-> msg]>>

-----------------------------------------------------------------------------
(* FilterBlocks *)

\* the loop body with an absent include_transactions let through
FilterBlocksEntry_absent_allowed(f, lim) ==
    IF ~check_any(f.account_include = <<>>, lim.account_include_any)
    THEN Err("AnyNotAllowed")
    ELSE IF ~check_pubkey_max(Len(f.account_include), lim.account_include_max)
    THEN Err("MaxExceeded")
    ELSE IF ~(f.include_transactions \in {None, Some(FALSE)} \/ lim.include_transactions)
    THEN Err("CreateBlocksNotAllowed(transactions)")
    ELSE IF ~(f.include_accounts \in {None, Some(FALSE)} \/ lim.include_accounts)
    THEN Err("CreateBlocksNotAllowed(accounts)")
    ELSE IF ~(f.include_entries \in {None, Some(FALSE)} \/ lim.include_accounts)
    THEN Err("CreateBlocksNotAllowed(entries)")
    ELSE
        LET include == decode_pubkeys_into_set(f.account_include, lim.account_include_reject)
        IN IF ~IsOk(include) THEN include
           ELSE Ok([account_include |-> include.val,
                    include_transactions |-> f.include_transactions,
                    include_accounts |-> f.include_accounts,
                    include_entries |-> f.include_entries])

FilterBlocksEntry(f, lim) ==
    IF ~check_any(f.account_include = <<>>, lim.account_include_any)
    THEN Err("AnyNotAllowed")
    ELSE IF ~check_pubkey_max(Len(f.account_include), lim.account_include_max)
    THEN Err("MaxExceeded")
    ELSE IF ~(f.include_transactions = Some(FALSE) \/ lim.include_transactions)
    THEN Err("CreateBlocksNotAllowed(transactions)")
    ELSE IF ~(f.include_accounts \in {None, Some(FALSE)} \/ lim.include_accounts)
    THEN Err("CreateBlocksNotAllowed(accounts)")
    ELSE IF ~(f.include_entries \in {None, Some(FALSE)} \/ lim.include_accounts)
    THEN Err("CreateBlocksNotAllowed(entries)")
    ELSE
        LET include == decode_pubkeys_into_set(f.account_include, lim.account_include_reject)
        IN IF ~IsOk(include) THEN include
           ELSE Ok([account_include |-> include.val,
                    include_transactions |-> f.include_transactions,
                    include_accounts |-> f.include_accounts,
                    include_entries |-> f.include_entries])

FilterBlocks_new(configs, lim, order) ==
    IF ~check_max(Cardinality(DOMAIN configs), lim.max) THEN Err("MaxExceeded")
    ELSE
        LET Entry(f) == FilterBlocksEntry(f, lim)
            built == CompileMap(configs, order, Entry)
        IN IF ~IsOk(built) THEN built
           ELSE Ok([filters |-> built.val])

\* an empty account_include taken as "no key passes"
BlockTransactions_strict(inner, block) ==
    IF inner.include_transactions \in {None, Some(TRUE)}
    THEN LET Keep(tx) == inner.account_include \cap tx.account_keys # {}
         IN SelectSeq(block.transactions, Keep)
    ELSE <<>>

\* the transactions of the projected block
BlockTransactions(inner, block) ==
    IF inner.include_transactions \in {None, Some(TRUE)}
    THEN LET Keep(tx) == ~(inner.account_include # {}
                           /\ inner.account_include \cap tx.account_keys = {})
         IN SelectSeq(block.transactions, Keep)
    ELSE <<>>

\* an empty account_include taken as "no account passes"
BlockAccounts_strict(inner, block) ==
    IF inner.include_accounts = Some(TRUE)
    THEN LET Keep(account) == account.pubkey \in inner.account_include
         IN SelectSeq(block.accounts, Keep)
    ELSE <<>>

\* the accounts of the projected block
BlockAccounts(inner, block) ==
    IF inner.include_accounts = Some(TRUE)
    THEN LET Keep(account) == ~(inner.account_include # {}
                                /\ account.pubkey \notin inner.account_include)
         IN SelectSeq(block.accounts, Keep)
    ELSE <<>>

\* the entries of the projected block
BlockEntries(inner, block) ==
    IF inner.include_entries = Some(TRUE) THEN block.entries ELSE <<>>

\* the pair FilterBlocks::get_filters yields for one (name, inner)
\* the projected block counts its own accounts, as MessageBlock::new does
FilterBlocksPair_recounted(name, inner, block) ==
    [names |-> {name},
     kind |-> "Block",
     msg |-> [meta |-> block.meta,
              transactions |-> BlockTransactions(inner, block),
              updated_account_count |-> Len(BlockAccounts(inner, block)),
              accounts |-> BlockAccounts(inner, block),
              entries |-> BlockEntries(inner, block)]]

FilterBlocksPair(name, inner, block) ==
    [names |-> {name},
     kind |-> "Block",
     msg |-> [meta |-> block.meta,
              transactions |-> BlockTransactions(inner, block),
              updated_account_count |-> block.updated_account_count,
              accounts |-> BlockAccounts(inner, block),
              entries |-> BlockEntries(inner, block)]]

\* one pair for all the names, projected by the first filter
FilterBlocks_get_filters_merged(fb, block, order) ==
    LET iter == IterNames(DOMAIN fb.filters, order)
    IN IF iter = <<>> THEN <<>>
       ELSE <<[FilterBlocksPair(iter[1], fb.filters[iter[1]], block)
                  EXCEPT !.names = DOMAIN fb.filters]>>

\* only the filter that comes first in the iteration of the map is applied
FilterBlocks_get_filters_first(fb, block, order) ==
    LET iter == IterNames(DOMAIN fb.filters, order)
    IN IF iter = <<>> THEN <<>>
       ELSE <<FilterBlocksPair(iter[1], fb.filters[iter[1]], block)>>

FilterBlocks_get_filters(fb, block, order) ==
    LET iter == IterNames(DOMAIN fb.filters, order)
    IN [i \in 1..Len(iter) |-> FilterBlocksPair(iter[i], fb.filters[iter[i]], block)]

-----------------------------------------------------------------------------
(* Canonical messages (plugin/message.rs) *)

\* MessageTransactionInfo::from_geyser; account_keys() of a sanitized message
\* are its static keys followed by the loaded writable and readonly addresses
MessageTransactionInfo_from_geyser(info) ==
    [signature |-> info.signature,
     is_vote |-> info.is_vote,
     transaction |-> [signatures |-> info.signatures,
                      message |-> Some([account_keys |-> info.static_keys])],
     meta |-> [err |-> info.err,
               loaded_writable_addresses |-> info.loaded_writable,
               loaded_readonly_addresses |-> info.loaded_readonly],
     index |-> info.index,
     account_keys |-> Range(info.static_keys \o info.loaded_writable \o info.loaded_readonly)]

\* MessageTransactionInfo::from_update_oneof: the record of a wire update
MessageTransactionInfo_from_update_oneof(msg) ==
    IF msg.transaction = None THEN Err("transaction message should be defined")
    ELSE IF msg.meta = None THEN Err("meta message should be defined")
    ELSE Ok([signature |-> msg.signature,
             is_vote |-> msg.is_vote,
             transaction |-> Unwrap(msg.transaction),
             meta |-> Unwrap(msg.meta),
             index |-> msg.index,
             account_keys |-> {}])

\* MessageTransactionInfo::fill_account_keys
fill_account_keys(tx) ==
    [tx EXCEPT !.account_keys =
        (IF IsSome(tx.transaction.message)
         THEN Range(Unwrap(tx.transaction.message).account_keys) ELSE {})
        \cup Range(tx.meta.loaded_writable_addresses)
        \cup Range(tx.meta.loaded_readonly_addresses)]

\* MessageTransaction::from_update_oneof
MessageTransaction_from_update_oneof(msg) ==
    IF msg.transaction = None THEN Err("transaction message should be defined")
    ELSE Try(MessageTransactionInfo_from_update_oneof(Unwrap(msg.transaction)),
             LAMBDA tx : Ok([transaction |-> tx, slot |-> msg.slot]))

MessageTransaction_from_geyser(info, slot) ==
    [transaction |-> MessageTransactionInfo_from_geyser(info), slot |-> slot]

\* MessageBlock::new
MessageBlock_new(meta, transactions, accounts, entries) ==
    [meta |-> meta,
     transactions |-> transactions,
     updated_account_count |-> Len(accounts),
     accounts |-> accounts,
     entries |-> entries]

\* collect::<Result<Vec<_>, _>>(): the first error, or every value
Collect(rs) ==
    IF \E i \in 1..Len(rs) : ~IsOk(rs[i])
    THEN rs[CHOOSE i \in 1..Len(rs) : ~IsOk(rs[i]) /\ \A j \in 1..(i - 1) : IsOk(rs[j])]
    ELSE Ok([i \in 1..Len(rs) |-> rs[i].val])

\* MessageBlock::from_update_oneof (the accounts and entries of the update
\* carry keys and hashes of the right length)
MessageBlock_from_update_oneof(msg) ==
    Try(Collect([i \in 1..Len(msg.transactions) |->
                    MessageTransactionInfo_from_update_oneof(msg.transactions[i])]),
        LAMBDA txs :
            Ok([meta |-> [slot |-> msg.slot, blockhash |-> msg.blockhash,
                          parent_slot |-> msg.parent_slot,
                          executed_transaction_count |-> msg.executed_transaction_count,
                          entries_count |-> msg.entries_count],
                transactions |-> txs,
                updated_account_count |-> msg.updated_account_count,
                accounts |-> msg.accounts,
                entries |-> msg.entries]))

\* Message::from_update_oneof
Message_from_update_oneof(oneof) ==
    CASE oneof.kind = "Transaction" ->
            Try(MessageTransaction_from_update_oneof(oneof),
                LAMBDA m : Ok([kind |-> "Transaction", msg |-> m]))
      [] oneof.kind = "Block" ->
            Try(MessageBlock_from_update_oneof(oneof),
                LAMBDA m : Ok([kind |-> "Block", msg |-> m]))
      [] oneof.kind = "TransactionStatus" -> Err("TransactionStatus message is not supported")
      [] oneof.kind = "Ping" -> Err("Ping message is not supported")
      [] oneof.kind = "Pong" -> Err("Pong message is not supported")

-----------------------------------------------------------------------------
(* Filter *)

decode_commitment(c) ==
    LET v == IF IsSome(c) THEN Unwrap(c) ELSE 0
    IN IF v \in 0..(Len(CommitmentLevels) - 1) THEN Ok(CommitmentLevels[v + 1])
       ELSE Err("InvalidCommitment")

\* Filter::new: the fields are built in order and the first failure returns
Filter_new(config, lim, order, oc) ==
    Try(FilterAccounts_new(config.accounts, lim.accounts, order), LAMBDA accounts :
    Try(FilterSlots_new(config.slots, lim.slots), LAMBDA slots :
    Try(FilterTransactions_new(config.transactions, lim.transactions,
                               "Transaction", order), LAMBDA transactions :
    Try(FilterTransactions_new(config.transactions_status, lim.transactions_status,
                               "TransactionStatus", order), LAMBDA transactions_status :
    Try(FilterEntries_new(config.entry, lim.entries), LAMBDA entries :
    Try(FilterBlocks_new(config.blocks, lim.blocks, order), LAMBDA blocks :
    Try(FilterBlocksMeta_new(config.blocks_meta, lim.blocks_meta), LAMBDA blocks_meta :
    Try(decode_commitment(config.commitment), LAMBDA level :
    Try(FilterAccountsDataSlice_new(config.accounts_data_slice,
                                    lim.accounts.data_slice_max, oc), LAMBDA accounts_data_slice :
        Ok([accounts |-> accounts,
            slots |-> slots,
            transactions |-> transactions,
            transactions_status |-> transactions_status,
            entries |-> entries,
            blocks |-> blocks,
            blocks_meta |-> blocks_meta,
            commitment |-> level,
            accounts_data_slice |-> accounts_data_slice,
            ping |-> IF IsSome(config.ping) THEN Some(Unwrap(config.ping).id) ELSE None]))))))))))

Filter_get_commitment_level(f) == f.commitment

\* the transaction arm without the chained transactions_status iterator
Filter_get_filters_unchained(f, m, c, order, oc) ==
    CASE m.kind = "Account" -> FilterAccounts_get_filters(f.accounts, m.msg, oc)
      [] m.kind = "Slot" -> Ok(FilterSlots_get_filters(f.slots, m.msg, c))
      [] m.kind = "Transaction" -> Ok(FilterTransactions_get_filters(f.transactions, m.msg))
      [] m.kind = "Entry" -> Ok(FilterEntries_get_filters(f.entries, m.msg))
      [] m.kind = "Block" -> Ok(FilterBlocks_get_filters(f.blocks, m.msg, order))
      [] m.kind = "BlockMeta" -> Ok(FilterBlocksMeta_get_filters(f.blocks_meta, m.msg))

\* the transaction arm with the two iterators chained the other way round
Filter_get_filters_status_first(f, m, c, order, oc) ==
    CASE m.kind = "Account" -> FilterAccounts_get_filters(f.accounts, m.msg, oc)
      [] m.kind = "Slot" -> Ok(FilterSlots_get_filters(f.slots, m.msg, c))
      [] m.kind = "Transaction" ->
            Ok(FilterTransactions_get_filters(f.transactions_status, m.msg)
               \o FilterTransactions_get_filters(f.transactions, m.msg))
      [] m.kind = "Entry" -> Ok(FilterEntries_get_filters(f.entries, m.msg))
      [] m.kind = "Block" -> Ok(FilterBlocks_get_filters(f.blocks, m.msg, order))
      [] m.kind = "BlockMeta" -> Ok(FilterBlocksMeta_get_filters(f.blocks_meta, m.msg))

\* the dispatcher with the entry arm gated by the commitment like the slot arm
Filter_get_filters_entries_gated(f, m, c, order, oc) ==
    CASE m.kind = "Account" -> FilterAccounts_get_filters(f.accounts, m.msg, oc)
      [] m.kind = "Slot" -> Ok(FilterSlots_get_filters(f.slots, m.msg, c))
      [] m.kind = "Transaction" ->
            Ok(FilterTransactions_get_filters(f.transactions, m.msg)
               \o FilterTransactions_get_filters(f.transactions_status, m.msg))
      [] m.kind = "Entry" ->
            Ok(IF c = Some(f.commitment) THEN FilterEntries_get_filters(f.entries, m.msg)
               ELSE <<[names |-> {}, kind |-> "Entry", msg |-> m.msg]>>)
      [] m.kind = "Block" -> Ok(FilterBlocks_get_filters(f.blocks, m.msg, order))
      [] m.kind = "BlockMeta" -> Ok(FilterBlocksMeta_get_filters(f.blocks_meta, m.msg))

\* Filter::get_filters: Ok(sequence of pairs) or panic
Filter_get_filters(f, m, c, order, oc) ==
    CASE m.kind = "Account" -> FilterAccounts_get_filters(f.accounts, m.msg, oc)
      [] m.kind = "Slot" -> Ok(FilterSlots_get_filters(f.slots, m.msg, c))
      [] m.kind = "Transaction" ->
            Ok(FilterTransactions_get_filters(f.transactions, m.msg)
               \o FilterTransactions_get_filters(f.transactions_status, m.msg))
      [] m.kind = "Entry" -> Ok(FilterEntries_get_filters(f.entries, m.msg))
      [] m.kind = "Block" -> Ok(FilterBlocks_get_filters(f.blocks, m.msg, order))
      [] m.kind = "BlockMeta" -> Ok(FilterBlocksMeta_get_filters(f.blocks_meta, m.msg))

\* FilteredMessage::as_proto_account: Ok(SubscribeUpdateAccountInfo) or panic
as_proto_account(account, rs, oc) ==
    LET data == as_proto_account_data(account.data, rs, oc)
    IN IF ~IsOk(data) THEN Panic
       ELSE Ok([account EXCEPT !.data = data.val])

as_proto_transaction(tx) ==
    [signature |-> tx.signature,
     is_vote |-> tx.is_vote,
     transaction |-> Some(tx.transaction),
     meta |-> Some(tx.meta),
     index |-> tx.index]

\* FilteredMessage::as_proto: Ok(UpdateOneof) or panic
as_proto(kind, msg, rs, oc) ==
    CASE kind = "Slot" ->
            Ok([kind |-> "Slot", slot |-> msg.slot, parent |-> msg.parent,
                status |-> CommitmentLevel_as_i32(msg.status)])
      [] kind = "Account" ->
            LET account == as_proto_account(msg.account, rs, oc)
            IN IF ~IsOk(account) THEN Panic
               ELSE Ok([kind |-> "Account", account |-> account.val, slot |-> msg.slot,
                        is_startup |-> msg.is_startup])
      [] kind = "Transaction" ->
            Ok([kind |-> "Transaction",
                transaction |-> as_proto_transaction(msg.transaction),
                slot |-> msg.slot])
      [] kind = "TransactionStatus" ->
            Ok([kind |-> "TransactionStatus", slot |-> msg.slot,
                signature |-> msg.transaction.signature,
                is_vote |-> msg.transaction.is_vote,
                index |-> msg.transaction.index,
                err |-> msg.transaction.meta.err])
      [] kind = "Entry" -> Ok([kind |-> "Entry", entry |-> msg])
      [] kind = "Block" ->
            LET accounts == FirstError([i \in 1..Len(msg.accounts) |->
                                           as_proto_account(msg.accounts[i], rs, oc)])
            IN IF ~IsOk(accounts) THEN Panic
               ELSE Ok([kind |-> "Block",
                        meta |-> msg.meta,
                        transactions |-> [i \in 1..Len(msg.transactions) |->
                                             as_proto_transaction(msg.transactions[i])],
                        updated_account_count |-> msg.updated_account_count,
                        accounts |-> accounts.val,
                        entries |-> msg.entries])
      [] kind = "BlockMeta" -> Ok([kind |-> "BlockMeta", meta |-> msg])

\* the closure without the test for an empty name list
UpdateOfPair_unfiltered(f, pair, oc) ==
    LET u == as_proto(pair.kind, pair.msg, f.accounts_data_slice, oc)
    IN IF ~IsOk(u) THEN Panic
       ELSE Ok(Some([filters |-> pair.names, update_oneof |-> u.val]))

\* the closure of Filter::get_update for one pair: None, Some(update) or panic
UpdateOfPair(f, pair, oc) ==
    IF pair.names = {} THEN Ok(None)
    ELSE LET u == as_proto(pair.kind, pair.msg, f.accounts_data_slice, oc)
         IN IF ~IsOk(u) THEN Panic
            ELSE Ok(Some([filters |-> pair.names, update_oneof |-> u.val]))

\* Filter::get_update: Ok(sequence of SubscribeUpdate) or panic
Filter_get_update(f, m, c, order, oc) ==
    LET ps == Filter_get_filters(f, m, c, order, oc)
    IN IF ~IsOk(ps) THEN Panic
       ELSE LET us == FirstError([i \in 1..Len(ps.val) |-> UpdateOfPair(f, ps.val[i], oc)])
            IN IF ~IsOk(us) THEN Panic
               ELSE Ok(Flatten(us.val))

\* a pong that names the filter's sections instead of an empty filter list
Filter_get_pong_msg_labelled(f) ==
    IF IsSome(f.ping)
    THEN Some([filters |-> DOMAIN f.accounts.filters,
               update_oneof |-> [kind |-> "Pong", id |-> Unwrap(f.ping)]])
    ELSE None

\* the Pong carries the default id, not the id of the request
Filter_get_pong_msg_default_id(f) ==
    IF IsSome(f.ping)
    THEN Some([filters |-> {}, update_oneof |-> [kind |-> "Pong", id |-> 0]])
    ELSE None

Filter_get_pong_msg(f) ==
    IF IsSome(f.ping)
    THEN Some([filters |-> {}, update_oneof |-> [kind |-> "Pong", id |-> Unwrap(f.ping)]])
    ELSE None

-----------------------------------------------------------------------------
(* The environment: limits, requests and messages *)

UsizeMax == WordMod - 1

\* FilterLimits::default(): nothing is capped, rejected or forbidden
FilterLimits_default ==
    [accounts |-> [max |-> UsizeMax, any |-> TRUE, account_max |-> UsizeMax,
                   account_reject |-> {}, owner_max |-> UsizeMax, owner_reject |-> {},
                   data_slice_max |-> UsizeMax],
     slots |-> [max |-> UsizeMax],
     transactions |-> [max |-> UsizeMax, any |-> TRUE, account_include_max |-> UsizeMax,
                       account_include_reject |-> {}, account_exclude_max |-> UsizeMax,
                       account_required_max |-> UsizeMax],
     transactions_status |-> [max |-> UsizeMax, any |-> TRUE,
                              account_include_max |-> UsizeMax,
                              account_include_reject |-> {},
                              account_exclude_max |-> UsizeMax,
                              account_required_max |-> UsizeMax],
     entries |-> [max |-> UsizeMax],
     blocks |-> [max |-> UsizeMax, account_include_max |-> UsizeMax,
                 account_include_any |-> TRUE, account_include_reject |-> {},
                 include_transactions |-> TRUE, include_accounts |-> TRUE,
                 include_entries |-> TRUE],
     blocks_meta |-> [max |-> UsizeMax]]

\* the empty map
NoFilters == <<>>

\* SubscribeRequest::default()
EmptyRequest ==
    [accounts |-> NoFilters, slots |-> NoFilters, transactions |-> NoFilters,
     transactions_status |-> NoFilters, entry |-> NoFilters, blocks |-> NoFilters,
     blocks_meta |-> NoFilters, commitment |-> None, accounts_data_slice |-> <<>>,
     ping |-> None]

\* all maps from a non-empty set of at most two names to the filters of F
MapsOver(F) == UNION {[S -> F] : S \in (SUBSET Names) \ {{}}}
\* the maps with the single name a
OneName(F) == {[n \in {"a"} |-> f] : f \in F}

AccountsFilter(sig, account, owner, filters) ==
    [nonempty_txn_signature |-> sig, account |-> account, owner |-> owner,
     filters |-> filters]
AnyAccount == AccountsFilter(None, <<>>, <<>>, <<>>)

AccountInfo(pubkey, owner, lamports, data, sig) ==
    [pubkey |-> pubkey, lamports |-> lamports, owner |-> owner, executable |-> FALSE,
     rent_epoch |-> 0, data |-> data, write_version |-> 1, txn_signature |-> sig]

AccountMessage(info) ==
    [kind |-> "Account", msg |-> [account |-> info, slot |-> 1, is_startup |-> FALSE]]

\* what the session passes as the commitment of Filter::get_update
SessionCommitment(f) == Some(Filter_get_commitment_level(f))

-----------------------------------------------------------------------------
(* Actions *)

NotYet == [tag |-> "none"]

\* the filter used on its own, outside a session
NoSession ==
    /\ session_state = "Detached"
    /\ installed = <<>>
    /\ queue = <<>>
    /\ wire = <<>>
    /\ history = <<>>
    /\ enqueued = <<>>
    /\ hub = NotYet
    /\ client = NotYet

InitWith(Requests, Limits, Profiles, Orders) ==
    /\ overflow_checks \in Profiles
    /\ map_order \in Orders
    /\ limits \in Limits
    /\ request \in Requests
    /\ filter = Filter_new(request, limits, map_order, overflow_checks)
    /\ message = None
    /\ commitment = None
    /\ pairs = NotYet
    /\ updates = NotYet
    /\ NoSession

\* one upstream message handed to the compiled filter
Dispatch(m, c) ==
    /\ IsOk(filter)
    /\ message' = Some(m)
    /\ commitment' = c
    /\ pairs' = Filter_get_filters(filter.val, m, c, map_order, overflow_checks)
    /\ updates' = Filter_get_update(filter.val, m, c, map_order, overflow_checks)
    /\ UNCHANGED <<overflow_checks, map_order, limits, request, filter>>
    /\ UNCHANGED session_vars
    /\ UNCHANGED other_vars

-----------------------------------------------------------------------------
(* Data slicing: requests with one match-all accounts filter and a slice list *)

Slice(offset, length) == [offset |-> offset, length |-> length]

SliceMenu ==
    {Slice(0, 0), Slice(0, 2), Slice(1, 2), Slice(3, 2), Slice(3, 0),
     Slice(WordMod - 1, 2), Slice(0, WordMod \div 2)}

SliceRequests ==
    {[EmptyRequest EXCEPT !.accounts = [n \in {"a"} |-> AnyAccount],
                          !.accounts_data_slice = ss] :
        ss \in SeqsUpTo(SliceMenu, MaxSlices)}

\* account data whose bytes tell their position: 10, 11, 12, ...
PositionData(n) == [i \in 1..n |-> 9 + i]

SlicedMessages ==
    {AccountMessage(AccountInfo(1, 2, 1, PositionData(n), None)) : n \in 0..MaxSlicedLen}

InitSlices == InitWith(SliceRequests, {FilterLimits_default}, BOOLEAN, {<<"a", "b">>})

OnSlicedAccount == \E m \in SlicedMessages : Dispatch(m, SessionCommitment(filter.val))

NextSlices == OnSlicedAccount

SpecSlices == InitSlices /\ [][NextSlices]_vars

-----------------------------------------------------------------------------
(* Transactions: requests with transaction filters, messages from the
   ingestion callback *)

RECURSIVE SortedSeq(_)
SortedSeq(S) ==
    IF S = {} THEN <<>>
    ELSE LET m == CHOOSE x \in S : \A y \in S : x <= y
         IN <<m>> \o SortedSeq(S \ {m})

\* the lists of at most n distinct public keys
KeyLists(n) == {SortedSeq(S) : S \in {T \in SUBSET Pubkeys : Cardinality(T) <= n}}

OptBool == {None, Some(TRUE), Some(FALSE)}

TxFilter(vote, failed, signature, include, exclude, required) ==
    [vote |-> vote, failed |-> failed, signature |-> signature,
     account_include |-> include, account_exclude |-> exclude,
     account_required |-> required]

ScalarTxFilters ==
    {TxFilter(v, f, sg, <<>>, <<>>, <<>>) :
        v \in OptBool, f \in OptBool, sg \in {None} \cup {Some(x) : x \in Signatures}}

KeyTxFilters ==
    {TxFilter(None, None, None, inc, exc, req) :
        inc \in KeyLists(1) \cup {<<1, 2>>}, exc \in KeyLists(1),
        req \in {<<>>, <<1>>, <<1, 3>>, <<2, 3>>}}

MixedTxFilters ==
    {TxFilter(Some(TRUE), f, sg, <<1>>, exc, req) :
        f \in {None, Some(FALSE)}, sg \in {None, Some("s1")},
        exc \in {<<>>, <<2>>}, req \in {<<>>, <<3>>}}

TxFilters == ScalarTxFilters \cup KeyTxFilters \cup MixedTxFilters

TwoTxFilters ==
    {TxFilter(None, None, None, <<1>>, <<>>, <<>>),
     TxFilter(None, None, None, <<>>, <<2>>, <<>>),
     TxFilter(Some(TRUE), None, None, <<>>, <<>>, <<2, 3>>)}

TxRequests ==
    {[EmptyRequest EXCEPT !.transactions = m] : m \in OneName(TxFilters)}
    \cup {[EmptyRequest EXCEPT !.transactions_status = m] : m \in OneName(TxFilters)}
    \cup {[EmptyRequest EXCEPT !.transactions = [n \in {"a"} |-> f1],
                               !.transactions_status = [n \in Names |->
                                    IF n = "a" THEN f2 ELSE f1]] :
            f1 \in TwoTxFilters, f2 \in TwoTxFilters}

\* ReplicaTransactionInfoV2: its signature is the first signature of the
\* transaction
GeyserTransactionInfos ==
    {[signature |-> sigs[1], is_vote |-> v, signatures |-> sigs, static_keys |-> st,
      loaded_writable |-> ld[1], loaded_readonly |-> ld[2], err |-> e, index |-> 1] :
        sigs \in {<<"s1">>, <<"s2", "s1">>}, v \in BOOLEAN, st \in KeyLists(2),
        ld \in {<<<<>>, <<>>>>, <<<<3>>, <<2>>>>},
        e \in {None, Some("InstructionError")}}

TransactionMessages ==
    {[kind |-> "Transaction", msg |-> MessageTransaction_from_geyser(info, 1)] :
        info \in GeyserTransactionInfos}

InitTransactions ==
    InitWith(TxRequests, {FilterLimits_default}, {FALSE}, {<<"a", "b">>})

OnTransaction ==
    \E m \in TransactionMessages : Dispatch(m, SessionCommitment(filter.val))

NextTransactions == OnTransaction

SpecTransactions == InitTransactions /\ [][NextTransactions]_vars

Dispatched(kind) == IsOk(filter) /\ message # None /\ Unwrap(message).kind = kind

\* the match the specification describes, on the filter as requested
TxMatchesAsSpecified(f, tx) ==
    /\ f.vote = None \/ f.vote = Some(tx.is_vote)
    /\ f.failed = None \/ f.failed = Some(IsSome(tx.meta.err))
    /\ f.signature = None \/ f.signature = Some(tx.signature)
    /\ f.account_include = <<>> \/ Range(f.account_include) \cap tx.account_keys # {}
    /\ Range(f.account_exclude) \cap tx.account_keys = {}
    /\ Range(f.account_required) \subseteq tx.account_keys

\* C2: a transaction filter name, of either map, is yielded for a transaction
\* iff every scalar it declares equals the transaction's value, its
\* account_include is empty or meets the keys, its account_exclude misses the
\* keys and its account_required is a subset of the keys.
C2_TransactionMatch ==
    Dispatched("Transaction") =>
        LET tx == Unwrap(message).msg.transaction
        IN /\ IsOk(pairs)
           /\ pairs.val[1].names =
                  {n \in DOMAIN request.transactions :
                      TxMatchesAsSpecified(request.transactions[n], tx)}
           /\ pairs.val[2].names =
                  {n \in DOMAIN request.transactions_status :
                      TxMatchesAsSpecified(request.transactions_status[n], tx)}

\* include = [1], required = [2, 3] against the keys {1, 3}: nothing is yielded
C2_Witness ==
    /\ Dispatched("Transaction")
    /\ "a" \in DOMAIN request.transactions
    /\ request.transactions["a"].account_include = <<1>>
    /\ request.transactions["a"].account_required = <<2, 3>>
    /\ Unwrap(message).msg.transaction.account_keys = {1, 3}
    /\ pairs.val[1].names = {}
    /\ updates = Ok(<<>>)

-----------------------------------------------------------------------------
(* Accounts: requests with accounts filters, account messages *)

PredicateLists ==
    {<<>>,
     <<PredLamports(Cmp("Eq", 1))>>, <<PredLamports(Cmp("Ne", 1))>>,
     <<PredLamports(Cmp("Lt", 1))>>, <<PredLamports(Cmp("Gt", 1))>>,
     <<PredDatasize(1)>>, <<PredDatasize(2), PredLamports(Cmp("Lt", 2))>>,
     <<PredMemcmp(0, MemcmpBytes(<<1>>))>>, <<PredMemcmp(1, MemcmpBytes(<<0>>))>>,
     <<PredMemcmp(UsizeMax, MemcmpBytes(<<1, 1>>))>>,
     <<PredTokenAccountState(TRUE)>>}

AccountsFilters ==
    {AccountsFilter(sg, acc, own, ps) :
        sg \in OptBool, acc \in {<<>>, <<1>>, <<1, 2>>}, own \in {<<>>, <<2>>},
        ps \in {<<>>, <<PredLamports(Cmp("Eq", 1))>>, <<PredDatasize(1)>>,
                <<PredMemcmp(0, MemcmpBytes(<<1>>))>>}}
    \cup {AccountsFilter(None, <<>>, <<>>, ps) : ps \in PredicateLists}

TwoAccountsFilters ==
    {AnyAccount,
     AccountsFilter(None, <<1>>, <<>>, <<>>),
     AccountsFilter(Some(TRUE), <<>>, <<2>>, <<>>),
     AccountsFilter(None, <<>>, <<>>, <<PredLamports(Cmp("Gt", 1))>>)}

AccountsRequests ==
    {[EmptyRequest EXCEPT !.accounts = m] : m \in OneName(AccountsFilters)}
    \cup {[EmptyRequest EXCEPT !.accounts = m] : m \in [Names -> TwoAccountsFilters]}

\* the balances with no data, and the data payloads with one balance
\* data of the length of an SPL token account, with the given state byte
TokenData(state) == [i \in 1..165 |-> IF i = 109 THEN state ELSE 0]

LamportsAndData ==
    {<<l, <<>>>> : l \in 0..MaxLamports}
    \cup {<<1, d>> : d \in SeqsUpTo(Bytes, MaxDataLen)}
    \cup {<<1, TokenData(st)>> : st \in Bytes}

AccountMessages ==
    {AccountMessage(AccountInfo(pk, own, ld[1], ld[2], sg)) :
        pk \in {1, 3}, own \in {2, 3}, ld \in LamportsAndData,
        sg \in {None, Some("s1")}}

InitAccounts == InitWith(AccountsRequests, {FilterLimits_default}, BOOLEAN, {<<"a", "b">>})

OnAccount == \E m \in AccountMessages : Dispatch(m, SessionCommitment(filter.val))

NextAccounts == OnAccount

SpecAccounts == InitAccounts /\ [][NextAccounts]_vars

\* a data predicate in its named meaning, the balance on the left
PredSatisfied(p, data, lamports) ==
    CASE p.kind = "Memcmp" ->
            LET bytes == Unwrap(p.data).bytes
            IN /\ p.offset + Len(bytes) <= Len(data)
               /\ SubSeq(data, p.offset + 1, p.offset + Len(bytes)) = bytes
      [] p.kind = "Datasize" -> Len(data) = p.size
      [] p.kind = "TokenAccountState" -> TokenAccount_valid_account_data(data)
      [] p.kind = "Lamports" ->
            LET c == Unwrap(p.cmp)
            IN CASE c.op = "Eq" -> lamports = c.value
                 [] c.op = "Ne" -> lamports # c.value
                 [] c.op = "Lt" -> lamports < c.value
                 [] c.op = "Gt" -> lamports > c.value

AccountMatchesAsSpecified(f, info) ==
    /\ f.nonempty_txn_signature = None
           \/ f.nonempty_txn_signature = Some(IsSome(info.txn_signature))
    /\ f.account = <<>> \/ info.pubkey \in Range(f.account)
    /\ f.owner = <<>> \/ info.owner \in Range(f.owner)
    /\ \A i \in 1..Len(f.filters) : PredSatisfied(f.filters[i], info.data, info.lamports)

\* C1: the accounts dispatcher yields exactly the names whose declared
\* transaction-signature flag, account list, owner list and data predicates
\* are all satisfied by the account message.
C1_AccountsDispatch ==
    Dispatched("Account") =>
        /\ IsOk(pairs)
        /\ pairs.val[1].names =
               {n \in DOMAIN request.accounts :
                   AccountMatchesAsSpecified(request.accounts[n],
                                             Unwrap(message).msg.account)}

\* C12: the data predicate of every filter name is satisfied by the data and
\* the balance of an account iff the data length equals the datasize when
\* set, the token account shape holds when asked, every lamports predicate
\* holds and every memcmp range lies inside the data and equals its bytes.
C12_DataPredicate ==
    Dispatched("Account") =>
        \A n \in DOMAIN request.accounts :
            LET info == Unwrap(message).msg.account
                f == request.accounts[n]
            IN FilterAccountsState_is_match(filter.val.accounts.filters[n], info.data,
                                            info.lamports, overflow_checks)
                   = Ok(\A i \in 1..Len(f.filters) :
                            PredSatisfied(f.filters[i], info.data, info.lamports))

\* C13: every compiled lamports predicate has its named meaning with the
\* balance of the account on the left: Eq(v) iff lamports = v, Ne(v) iff
\* lamports # v, Lt(v) iff lamports < v, Gt(v) iff lamports > v.
C13_LamportsMeaning ==
    Dispatched("Account") =>
        \A n \in DOMAIN request.accounts :
            LET lamports == Unwrap(message).msg.account.lamports
                cmps == filter.val.accounts.filters[n].lamports
            IN \A i \in 1..Len(cmps) :
                   FilterAccountsLamports_is_match(cmps[i], lamports)
                       = CASE cmps[i].op = "Eq" -> lamports = cmps[i].value
                           [] cmps[i].op = "Ne" -> lamports # cmps[i].value
                           [] cmps[i].op = "Lt" -> lamports < cmps[i].value
                           [] cmps[i].op = "Gt" -> lamports > cmps[i].value

-----------------------------------------------------------------------------
(* Memcmp literals: requests whose accounts filters compare with one literal *)

Repeat(c, n) == [i \in 1..n |-> c]

\* raw bytes around MAX_DATA_SIZE
RawLiterals ==
    {MemcmpBytes(Repeat(1, n)) :
        n \in {0, 1, MAX_DATA_SIZE - 1, MAX_DATA_SIZE, MAX_DATA_SIZE + 1}}

\* base58 strings: short ones, one outside the alphabet, and around both limits:
\* MAX_DATA_BASE58_SIZE characters decoding to MAX_DATA_SIZE bytes and to one
\* more, and longer strings inside and outside the alphabet
Base58Literals ==
    {MemcmpBase58(<<>>), MemcmpBase58(<<0, 0, 39, 7>>), MemcmpBase58(<<3, 58>>),
     MemcmpBase58(<<1>> \o Repeat(57, MAX_DATA_BASE58_SIZE - 1)),
     MemcmpBase58(Repeat(57, MAX_DATA_BASE58_SIZE)),
     MemcmpBase58(Repeat(0, MAX_DATA_SIZE)),
     MemcmpBase58(Repeat(0, MAX_DATA_SIZE + 1)),
     MemcmpBase58(Repeat(0, MAX_DATA_BASE58_SIZE + 1)),
     MemcmpBase58(<<58>> \o Repeat(1, MAX_DATA_BASE58_SIZE))}

\* base64 strings: short ones, malformed ones, and around both limits:
\* MAX_DATA_BASE64_SIZE characters decoding to MAX_DATA_SIZE bytes and to one
\* more, and longer strings
Base64Literals ==
    {MemcmpBase64(<<>>), MemcmpBase64(<<1, 0, 64, 64>>), MemcmpBase64(<<1, 1, 1>>),
     MemcmpBase64(<<1, 1, 5, 64>>), MemcmpBase64(<<1, 65, 1, 1>>),
     MemcmpBase64(Repeat(63, MAX_DATA_BASE64_SIZE - 4) \o <<1, 1, 4, 64>>),
     MemcmpBase64(Repeat(63, MAX_DATA_BASE64_SIZE)),
     MemcmpBase64(Repeat(63, MAX_DATA_BASE64_SIZE + 4)),
     MemcmpBase64(<<65>> \o Repeat(63, MAX_DATA_BASE64_SIZE))}

MemcmpLiterals == {None} \cup RawLiterals \cup Base58Literals \cup Base64Literals

\* filters with one literal, alone or after another predicate, and pairs of
\* filters of which one holds a literal
MemcmpFilters ==
    {AccountsFilter(None, <<>>, <<>>, <<PredMemcmp(0, lit)>>) : lit \in MemcmpLiterals}
    \cup {AccountsFilter(None, <<>>, <<>>, <<PredDatasize(MAX_DATA_SIZE), PredMemcmp(0, lit)>>) :
             lit \in {None, MemcmpBytes(Repeat(1, MAX_DATA_SIZE)),
                      MemcmpBytes(Repeat(1, MAX_DATA_SIZE + 1))}}

MemcmpRequests ==
    {[EmptyRequest EXCEPT !.accounts = m] : m \in OneName(MemcmpFilters)}
    \cup {[EmptyRequest EXCEPT !.accounts = [n \in Names |-> IF n = "a" THEN AnyAccount ELSE f]] :
             f \in {AccountsFilter(None, <<>>, <<>>, <<PredMemcmp(0, lit)>>) :
                       lit \in {MemcmpBytes(<<1>>), MemcmpBase58(<<3, 58>>),
                                MemcmpBase64(Repeat(63, MAX_DATA_BASE64_SIZE))}}}

MemcmpMessages ==
    {AccountMessage(AccountInfo(1, 2, 1, d, None)) :
        d \in {<<>>, <<1>>, <<0, 0, 8, 221>>, <<4>>, Repeat(1, MAX_DATA_SIZE - 1),
               Repeat(1, MAX_DATA_SIZE), Repeat(255, MAX_DATA_SIZE)}}

InitMemcmp == InitWith(MemcmpRequests, {FilterLimits_default}, {FALSE}, MapOrders)

OnMemcmpAccount == \E m \in MemcmpMessages : Dispatch(m, SessionCommitment(filter.val))

NextMemcmp == OnMemcmpAccount

SpecMemcmp == InitMemcmp /\ [][NextMemcmp]_vars

\* the memcmp literals of the request, by filter name
RequestLiterals(n) ==
    {request.accounts[n].filters[i].data : i \in
        {j \in 1..Len(request.accounts[n].filters) :
            request.accounts[n].filters[j].kind = "Memcmp"}}

TooLongToDecode(lit) ==
    \/ lit.enc = "Base58" /\ Len(lit.bytes) > 175
    \/ lit.enc = "Base64" /\ Len(lit.bytes) > 172

Decoded(lit) ==
    CASE lit.enc = "Bytes" -> Ok(lit.bytes)
      [] lit.enc = "Base58" -> bs58_decode(lit.bytes)
      [] lit.enc = "Base64" -> base64_decode(lit.bytes)

\* the fate of one literal as specified: accepted, or the reason of the refusal
LiteralFate(data) ==
    IF data = None THEN "data for memcmp should be defined"
    ELSE LET lit == Unwrap(data)
         IN IF TooLongToDecode(lit) THEN "data too large"
            ELSE IF ~IsOk(Decoded(lit))
            THEN IF lit.enc = "Base58" THEN "invalid base58" ELSE "invalid base64"
            ELSE IF Len(Decoded(lit).val) >= 129 THEN "data too large"
            ELSE "accepted"

FateError(fate) ==
    CASE fate = "data for memcmp should be defined" ->
            Err("CreateAccountState(data for memcmp should be defined)")
      [] fate = "data too large" -> Err("CreateAccountState(data too large)")
      [] fate = "invalid base58" -> Err("CreateAccountState(invalid base58)")
      [] fate = "invalid base64" -> Err("CreateAccountState(invalid base64)")

\* C14: the filter builds iff every memcmp literal is present, is at most 175
\* (base58) or 172 (base64) characters long, decodes, and decodes to at most
\* 128 bytes; the compiled bytes are then the decoded bytes; otherwise the whole
\* build fails with the refusal of one of its literals, which for a string
\* over the character limit is the size refusal whatever its characters.
C14_MemcmpLiteralLimits ==
    LET fates == {LiteralFate(d) : d \in UNION {RequestLiterals(n) : n \in DOMAIN request.accounts}}
    IN /\ IsOk(filter) <=> fates \subseteq {"accepted"}
       /\ ~IsOk(filter) => \E fate \in fates \ {"accepted"} : filter = FateError(fate)
       /\ IsOk(filter) =>
              \A n \in DOMAIN request.accounts :
                  {filter.val.accounts.filters[n].memcmp[i].bytes :
                      i \in 1..Len(filter.val.accounts.filters[n].memcmp)}
                      = {Decoded(Unwrap(d)).val : d \in RequestLiterals(n)}

\* a 175-character base58 string of 128 bytes was compiled and compared with
\* the data of an account
C14_Witness ==
    /\ Dispatched("Account")
    /\ request.accounts["a"].filters
           = <<PredMemcmp(0, MemcmpBase58(<<1>> \o Repeat(57, MAX_DATA_BASE58_SIZE - 1)))>>
    /\ Len(filter.val.accounts.filters["a"].memcmp[1].bytes) = MAX_DATA_SIZE
    /\ Len(Unwrap(message).msg.account.data) = MAX_DATA_SIZE

-----------------------------------------------------------------------------
(* Blocks: requests with block filters, reconstructed block messages *)

BlockFilter(include, txs, accs, ents) ==
    [account_include |-> include, include_transactions |-> txs,
     include_accounts |-> accs, include_entries |-> ents]

BlockFilters ==
    {BlockFilter(inc, t, a, e) :
        inc \in KeyLists(2), t \in OptBool, a \in OptBool, e \in OptBool}

TwoBlockFilters ==
    {BlockFilter(<<>>, None, None, None),
     BlockFilter(<<1>>, Some(TRUE), Some(TRUE), Some(TRUE)),
     BlockFilter(<<2>>, Some(FALSE), Some(TRUE), None)}

BlockRequests ==
    {[EmptyRequest EXCEPT !.blocks = m] : m \in OneName(BlockFilters)}
    \cup {[EmptyRequest EXCEPT !.blocks = m] : m \in [Names -> TwoBlockFilters]}

BlockTransaction(sig, keys, index) ==
    MessageTransactionInfo_from_geyser(
        [signature |-> sig, is_vote |-> FALSE, signatures |-> <<sig>>,
         static_keys |-> keys, loaded_writable |-> <<>>, loaded_readonly |-> <<>>,
         err |-> None, index |-> index])

BlockTransactionLists ==
    {<<>>, <<BlockTransaction("s1", <<1>>, 0)>>,
     <<BlockTransaction("s1", <<1>>, 0), BlockTransaction("s2", <<2, 3>>, 1)>>,
     <<BlockTransaction("s1", <<2, 3>>, 0), BlockTransaction("s2", <<>>, 1)>>,
     <<BlockTransaction("s1", <<3>>, 0), BlockTransaction("s2", <<1, 2>>, 1)>>}

BlockAccountLists ==
    {<<>>, <<AccountInfo(1, 2, 1, <<>>, None)>>,
     <<AccountInfo(1, 2, 1, <<>>, None), AccountInfo(2, 2, 0, <<1>>, Some("s1"))>>,
     <<AccountInfo(3, 2, 1, <<>>, None), AccountInfo(1, 3, 2, <<0>>, None)>>}

MessageEntry(slot, index) ==
    [slot |-> slot, index |-> index, num_hashes |-> 1, hash |-> "h",
     executed_transaction_count |-> 1, starting_transaction_index |-> index]

BlockEntryLists == {<<>>, <<MessageEntry(1, 0)>>, <<MessageEntry(1, 0), MessageEntry(1, 1)>>}

BlockMeta(slot, txcount, entries) ==
    [slot |-> slot, blockhash |-> "h", parent_slot |-> slot - 1,
     executed_transaction_count |-> txcount, entries_count |-> entries]

BlockMessages ==
    {[kind |-> "Block",
      msg |-> MessageBlock_new(BlockMeta(1, Len(txs), Len(ents)), txs, accs, ents)] :
        txs \in BlockTransactionLists, accs \in BlockAccountLists, ents \in BlockEntryLists}

InitBlocks ==
    InitWith(BlockRequests, {FilterLimits_default}, {FALSE}, MapOrders)

OnBlock == \E m \in BlockMessages : Dispatch(m, SessionCommitment(filter.val))

NextBlocks == OnBlock

SpecBlocks == InitBlocks /\ [][NextBlocks]_vars

\* some pair of a dispatched block is the projection for the name n
PairOf(n) == CHOOSE i \in 1..Len(pairs.val) : pairs.val[i].names = {n}

\* every block filter of the request has its own pair, and nothing else
OnePairPerBlockFilter ==
    /\ IsOk(pairs)
    /\ Len(pairs.val) = Cardinality(DOMAIN request.blocks)
    /\ \A n \in DOMAIN request.blocks : \E i \in 1..Len(pairs.val) : pairs.val[i].names = {n}

Intersects(tx, include) == Range(include) \cap tx.account_keys # {}

\* C9 as stated: the projected transactions are those whose keys intersect
\* account_include, for every account_include set, the empty one included,
\* unless include_transactions = false empties the list.
C9_Original ==
    Dispatched("Block") =>
        /\ OnePairPerBlockFilter
        /\ \A n \in DOMAIN request.blocks :
              LET f == request.blocks[n]
                  block == Unwrap(message).msg
                  Keep(tx) == Intersects(tx, f.account_include)
              IN pairs.val[PairOf(n)].msg.transactions =
                     IF f.include_transactions = Some(FALSE) THEN <<>>
                     ELSE SelectSeq(block.transactions, Keep)

\* C9: the projected transactions of a block are empty when
\* include_transactions = false; otherwise they are all the transactions of
\* the block when account_include is empty, and exactly those whose key set
\* intersects account_include when it is not.
C9_BlockTransactions ==
    Dispatched("Block") =>
        /\ OnePairPerBlockFilter
        /\ \A n \in DOMAIN request.blocks :
              LET f == request.blocks[n]
                  block == Unwrap(message).msg
                  Keep(tx) == Intersects(tx, f.account_include)
              IN pairs.val[PairOf(n)].msg.transactions =
                     IF f.include_transactions = Some(FALSE) THEN <<>>
                     ELSE IF f.account_include = <<>> THEN block.transactions
                     ELSE SelectSeq(block.transactions, Keep)

\* an empty account_include keeps both transactions of a block
C9_Witness ==
    /\ Dispatched("Block")
    /\ DOMAIN request.blocks = {"a"}
    /\ request.blocks["a"].account_include = <<>>
    /\ request.blocks["a"].include_transactions = None
    /\ Len(Unwrap(message).msg.transactions) = 2
    /\ pairs.val[1].msg.transactions = Unwrap(message).msg.transactions
    /\ Len(updates.val[1].update_oneof.transactions) = 2

\* C10 as stated: the projected accounts are empty unless include_accounts =
\* true, and then are the accounts whose pubkey is in account_include; the
\* entries are all the entries when include_entries = true, else none.
C10_Original ==
    Dispatched("Block") =>
        /\ OnePairPerBlockFilter
        /\ \A n \in DOMAIN request.blocks :
              LET f == request.blocks[n]
                  block == Unwrap(message).msg
                  Keep(account) == account.pubkey \in Range(f.account_include)
              IN /\ pairs.val[PairOf(n)].msg.accounts =
                        IF f.include_accounts = Some(TRUE)
                        THEN SelectSeq(block.accounts, Keep) ELSE <<>>
                 /\ pairs.val[PairOf(n)].msg.entries =
                        IF f.include_entries = Some(TRUE) THEN block.entries ELSE <<>>

\* C10: the projected accounts of a block are empty unless include_accounts =
\* true; when true they are all the accounts of the block if account_include
\* is empty, and exactly those whose pubkey is in account_include otherwise.
\* The projected entries are all the entries of the block when
\* include_entries = true and none otherwise.
C10_BlockAccountsEntries ==
    Dispatched("Block") =>
        /\ OnePairPerBlockFilter
        /\ \A n \in DOMAIN request.blocks :
              LET f == request.blocks[n]
                  block == Unwrap(message).msg
                  Keep(account) == account.pubkey \in Range(f.account_include)
              IN /\ pairs.val[PairOf(n)].msg.accounts =
                        IF f.include_accounts # Some(TRUE) THEN <<>>
                        ELSE IF f.account_include = <<>> THEN block.accounts
                        ELSE SelectSeq(block.accounts, Keep)
                 /\ pairs.val[PairOf(n)].msg.entries =
                        IF f.include_entries = Some(TRUE) THEN block.entries ELSE <<>>

\* include_accounts = true with an empty account_include keeps both accounts
\* of a block, and include_entries = true keeps its entries
C10_Witness ==
    /\ Dispatched("Block")
    /\ DOMAIN request.blocks = {"a"}
    /\ request.blocks["a"].account_include = <<>>
    /\ request.blocks["a"].include_accounts = Some(TRUE)
    /\ request.blocks["a"].include_entries = Some(TRUE)
    /\ Len(Unwrap(message).msg.accounts) = 2
    /\ Len(Unwrap(message).msg.entries) = 2
    /\ pairs.val[1].msg.accounts = Unwrap(message).msg.accounts
    /\ pairs.val[1].msg.entries = Unwrap(message).msg.entries

\* the block one filter selects, from that filter and the block alone
BlockAsProjectedBy(f, block) ==
    LET KeepTx(tx) == f.account_include = <<>> \/ Intersects(tx, f.account_include)
        KeepAccount(account) ==
            f.account_include = <<>> \/ account.pubkey \in Range(f.account_include)
    IN [meta |-> block.meta,
        transactions |-> IF f.include_transactions = Some(FALSE) THEN <<>>
                         ELSE SelectSeq(block.transactions, KeepTx),
        updated_account_count |-> block.updated_account_count,
        accounts |-> IF f.include_accounts = Some(TRUE)
                     THEN SelectSeq(block.accounts, KeepAccount) ELSE <<>>,
        entries |-> IF f.include_entries = Some(TRUE) THEN block.entries ELSE <<>>]

\* C11: a block message yields exactly one pair per configured block filter,
\* each carrying that one name and the block projected by that filter alone,
\* whatever the other filters are; each pair is delivered as one update, so
\* every block reaches every block filter once, even with nothing selected.
C11_OnePairPerBlockFilter ==
    Dispatched("Block") =>
        /\ OnePairPerBlockFilter
        /\ \A n \in DOMAIN request.blocks :
              pairs.val[PairOf(n)].msg =
                  BlockAsProjectedBy(request.blocks[n], Unwrap(message).msg)
        /\ IsOk(updates)
        /\ Len(updates.val) = Cardinality(DOMAIN request.blocks)
        /\ \A i \in 1..Len(updates.val) :
              /\ updates.val[i].filters = pairs.val[i].names
              /\ updates.val[i].update_oneof.kind = "Block"

\* two block filters project the same block differently, and the one that
\* selects no transaction still gets its update
C11_Witness ==
    /\ Dispatched("Block")
    /\ DOMAIN request.blocks = Names
    /\ Len(updates.val) = 2
    /\ pairs.val[PairOf("a")].msg.transactions = <<>>
    /\ Len(pairs.val[PairOf("b")].msg.transactions) = 2
    /\ Len(Unwrap(message).msg.transactions) = 2

-----------------------------------------------------------------------------
(* Slots: requests with slot filters and a commitment level, slot status
   messages *)

MaxSlot == 2

SlotFilter(flag) == [filter_by_commitment |-> flag]

SlotRequests ==
    {[EmptyRequest EXCEPT !.slots = m, !.commitment = c] :
        m \in MapsOver({SlotFilter(b) : b \in OptBool}),
        c \in {None} \cup {Some(v) : v \in 0..Len(CommitmentLevels)}}

SlotMessages ==
    {[kind |-> "Slot",
      msg |-> [slot |-> sl, parent |-> IF sl > 1 THEN Some(sl - 1) ELSE None,
               status |-> CommitmentLevels[i],
               dead_error |-> IF CommitmentLevels[i] = "Dead" THEN Some("error") ELSE None]] :
        sl \in 1..MaxSlot, i \in 1..Len(CommitmentLevels)}

InitSlots == InitWith(SlotRequests, {FilterLimits_default}, {FALSE}, {<<"a", "b">>})

OnSlot == \E m \in SlotMessages : Dispatch(m, SessionCommitment(filter.val))

NextSlots == OnSlot

SpecSlots == InitSlots /\ [][NextSlots]_vars

\* the level the subscription chose: Processed when the request gave none
ChosenLevel(req) ==
    IF req.commitment = None THEN "Processed"
    ELSE CommitmentLevels[Unwrap(req.commitment) + 1]

\* C3: a slot filter name is yielded for a slot message iff its
\* filter_by_commitment flag is not set, or the commitment level of the
\* subscription (Processed when the request gave none) equals the status of
\* the message; a yielded name set is delivered as exactly one update.
C3_SlotCommitmentGate ==
    Dispatched("Slot") =>
        LET msg == Unwrap(message).msg
            names == {n \in DOMAIN request.slots :
                        \/ request.slots[n].filter_by_commitment # Some(TRUE)
                        \/ ChosenLevel(request) = msg.status}
        IN /\ IsOk(pairs) /\ Len(pairs.val) = 1
           /\ pairs.val[1].names = names
           /\ IsOk(updates)
           /\ Len(updates.val) = (IF names = {} THEN 0 ELSE 1)
           /\ names # {} => updates.val[1].filters = names

\* filter_by_commitment = true under commitment Confirmed: the Confirmed
\* status of a slot is delivered once, with the name
C3_Witness ==
    /\ Dispatched("Slot")
    /\ request.slots = [n \in {"a"} |-> SlotFilter(Some(TRUE))]
    /\ request.commitment = Some(1)
    /\ Unwrap(message).msg.status = "Confirmed"
    /\ Len(updates.val) = 1
    /\ updates.val[1].filters = {"a"}
    /\ updates.val[1].update_oneof.status = 1

-----------------------------------------------------------------------------
(* The whole filter: requests that mix the seven maps, messages of every
   kind, any commitment argument *)

NamedA(f) == [n \in {"a"} |-> f]
NamedB(f) == [n \in {"b"} |-> f]

MixedRequests ==
    {[accounts |-> acc[1], accounts_data_slice |-> acc[2], slots |-> sl,
      transactions |-> tx, transactions_status |-> txs, entry |-> en, blocks |-> bl,
      blocks_meta |-> bm, commitment |-> cm, ping |-> None] :
        acc \in {<<NoFilters, <<>>>>, <<NamedA(AnyAccount), <<>>>>,
                 <<NamedA(AccountsFilter(None, <<1>>, <<>>, <<>>)), <<Slice(0, 1)>>>>},
        sl \in {NoFilters, NamedA(SlotFilter(Some(TRUE))),
                [n \in Names |-> SlotFilter(Some(n = "b"))]},
        tx \in {NoFilters, NamedA(TxFilter(Some(FALSE), None, None, <<1>>, <<>>, <<>>))},
        txs \in {NoFilters, NamedB(TxFilter(None, None, None, <<>>, <<2>>, <<>>))},
        en \in {NoFilters, NamedA([x \in {} |-> x])},
        bl \in {NoFilters, NamedA(BlockFilter(<<1>>, Some(TRUE), Some(TRUE), Some(TRUE))),
                [n \in Names |-> BlockFilter(<<>>, Some(n = "a"), None, None)]},
        bm \in {NoFilters, NamedB([x \in {} |-> x])},
        cm \in {None, Some(1)}}

MixedAccountMessages ==
    {AccountMessage(AccountInfo(pk, 2, 1, <<1, 0>>, sg)) :
        pk \in {1, 3}, sg \in {None, Some("s1")}}

MixedSlotMessages == {m \in SlotMessages : m.msg.slot = 1}

MixedTransactionMessages ==
    {m \in TransactionMessages :
        /\ m.msg.transaction.transaction.signatures = <<"s1">>
        /\ m.msg.transaction.meta.err = None
        /\ m.msg.transaction.meta.loaded_writable_addresses = <<>>
        /\ Cardinality(m.msg.transaction.account_keys) = 1}

MixedBlockMessages ==
    {m \in BlockMessages :
        /\ Len(m.msg.transactions) = 2 /\ Len(m.msg.accounts) = 2 /\ Len(m.msg.entries) = 1
        /\ m.msg.transactions[1].account_keys = {1}}

\* no commitment, or one of the levels a subscription can choose
CommitmentArguments == {None, Some("Processed"), Some("Confirmed"), Some("Finalized")}

Init == InitWith(MixedRequests, {FilterLimits_default}, {FALSE}, {<<"a", "b">>})

GetUpdateAccount ==
    \E m \in MixedAccountMessages, c \in {None, SessionCommitment(filter.val)} :
        Dispatch(m, c)

GetUpdateSlot ==
    \E m \in MixedSlotMessages, c \in CommitmentArguments : Dispatch(m, c)

GetUpdateTransaction ==
    \E m \in MixedTransactionMessages, c \in {None, SessionCommitment(filter.val)} :
        Dispatch(m, c)

GetUpdateEntry ==
    \E c \in {None, SessionCommitment(filter.val)} :
        Dispatch([kind |-> "Entry", msg |-> MessageEntry(1, 0)], c)

GetUpdateBlock ==
    \E m \in MixedBlockMessages, c \in {None, SessionCommitment(filter.val)} :
        Dispatch(m, c)

GetUpdateBlockMeta ==
    \E c \in {None, SessionCommitment(filter.val)} :
        Dispatch([kind |-> "BlockMeta", msg |-> BlockMeta(1, 2, 1)], c)

Next ==
    \/ GetUpdateAccount
    \/ GetUpdateSlot
    \/ GetUpdateTransaction
    \/ GetUpdateEntry
    \/ GetUpdateBlock
    \/ GetUpdateBlockMeta

Spec == Init /\ [][Next]_vars

DispatchedAny == IsOk(filter) /\ message # None

\* the positions of the pairs with a non-empty name list
Named(ps) == {i \in 1..Len(ps) : ps[i].names # {}}

\* C6: every SubscribeUpdate produced by Filter::get_update carries a
\* non-empty filters list, and a pair whose name list is empty produces no
\* update: there are as many updates as pairs with names.
C6_NoEmptyFilters ==
    DispatchedAny =>
        /\ IsOk(pairs) /\ IsOk(updates)
        /\ \A i \in 1..Len(updates.val) : updates.val[i].filters # {}
        /\ Len(updates.val) = Cardinality(Named(pairs.val))

\* a slot message gated out for every name: one pair, no update
C6_Witness ==
    /\ Dispatched("Slot")
    /\ request.slots # NoFilters
    /\ Len(pairs.val) = 1
    /\ pairs.val[1].names = {}
    /\ updates = Ok(<<>>)

\* C7 as stated: a message of kind account, slot, transaction, entry or
\* block-meta yields exactly one pair.
C7_Original ==
    (DispatchedAny /\ Unwrap(message).kind # "Block") =>
        IsOk(pairs) /\ Len(pairs.val) = 1

\* C7: a message of kind account, slot, entry or block-meta yields exactly
\* one pair and a transaction message exactly two, whether or not any filter
\* matches.
C7_PairsPerMessage ==
    (DispatchedAny /\ Unwrap(message).kind # "Block") =>
        /\ IsOk(pairs)
        /\ Len(pairs.val) = (IF Unwrap(message).kind = "Transaction" THEN 2 ELSE 1)

\* a transaction message no filter matches still yields its two pairs
C7_Witness ==
    /\ Dispatched("Transaction")
    /\ request.transactions # NoFilters
    /\ Len(pairs.val) = 2
    /\ pairs.val[1].names = {} /\ pairs.val[2].names = {}

\* C8: a transaction message yields exactly two pairs, first the
\* transactions channel with the names matched in the transactions map, then
\* the transactions_status channel with the names matched in the
\* transactions_status map; the updates on the wire are the pairs with names,
\* in that order.
C8_TwoChannels ==
    Dispatched("Transaction") =>
        LET tx == Unwrap(message).msg.transaction
            ps == pairs.val
            kept == Named(ps)
        IN /\ IsOk(pairs) /\ Len(ps) = 2
           /\ ps[1].kind = "Transaction" /\ ps[2].kind = "TransactionStatus"
           /\ ps[1].names = {n \in DOMAIN request.transactions :
                                TxMatchesAsSpecified(request.transactions[n], tx)}
           /\ ps[2].names = {n \in DOMAIN request.transactions_status :
                                TxMatchesAsSpecified(request.transactions_status[n], tx)}
           /\ IsOk(updates) /\ Len(updates.val) = Cardinality(kept)
           /\ 1 \in kept => /\ updates.val[1].update_oneof.kind = "Transaction"
                             /\ updates.val[1].filters = ps[1].names
           /\ 2 \in kept =>
                  /\ updates.val[Len(updates.val)].update_oneof.kind = "TransactionStatus"
                  /\ updates.val[Len(updates.val)].filters = ps[2].names

\* a name configured only under transactions: the transactions pair carries
\* it, the transactions_status pair is empty and only one update is emitted
C8_Witness ==
    /\ Dispatched("Transaction")
    /\ DOMAIN request.transactions = {"a"}
    /\ request.transactions_status = NoFilters
    /\ request.transactions["a"].account_include = <<1>>
    /\ Unwrap(message).msg.transaction.account_keys = {1, 2}
    /\ pairs.val[1].names = {"a"}
    /\ pairs.val[2].names = {}
    /\ Len(updates.val) = 1
    /\ updates.val[1].update_oneof.kind = "Transaction"

-----------------------------------------------------------------------------
(* Claims about the data slices *)

DispatchedAccount == Dispatched("Account")

\* the projection the specification describes: the concatenation, in list
\* order, of data[offset .. offset + length) for the slices that fit
SlicedAsSpecified(slices, data) ==
    IF slices = <<>> THEN data
    ELSE Flatten([i \in 1..Len(slices) |->
            IF slices[i].offset + slices[i].length <= Len(data)
            THEN SubSeq(data, slices[i].offset + 1, slices[i].offset + slices[i].length)
            ELSE <<>>])

\* C4: for every slice list the build accepted and every account data, the
\* delivered account update carries the concatenation, in list order, of the
\* slices whose end is within the data; slices that end beyond it add nothing.
C4_SlicedDataIsConcatenation ==
    DispatchedAccount =>
        /\ IsOk(updates)
        /\ Len(updates.val) = 1
        /\ updates.val[1].update_oneof.account.data =
               SlicedAsSpecified(request.accounts_data_slice,
                                 Unwrap(message).msg.account.data)

\* the slices of the request as half-open ranges, as the build computes them
RequestRanges ==
    [i \in 1..Len(request.accounts_data_slice) |->
        [start |-> request.accounts_data_slice[i].offset,
         end |-> (request.accounts_data_slice[i].offset
                  + request.accounts_data_slice[i].length) % WordMod]]

NoSliceOverflow ==
    \A i \in 1..Len(request.accounts_data_slice) :
        request.accounts_data_slice[i].offset + request.accounts_data_slice[i].length
            < WordMod

SortedByStart(rs) == \A i, j \in 1..Len(rs) : i < j => rs[i].start <= rs[j].start
\* pairwise non-overlapping, for a list sorted by start: no slice starts before
\* the end of a slice listed before it
StartsAfterEarlierEnds(rs) == \A i, j \in 1..Len(rs) : j < i => rs[i].start >= rs[j].end
\* the first slice, in list order, that starts after a later slice or before
\* the end of an earlier one
Defective(rs, i) ==
    \/ \E j \in 1..Len(rs) : i < j /\ rs[i].start > rs[j].start
    \/ \E j \in 1..Len(rs) : j < i /\ rs[i].start < rs[j].end
FirstDefective(rs) ==
    CHOOSE i \in 1..Len(rs) : Defective(rs, i) /\ \A j \in 1..(i - 1) : ~Defective(rs, j)

\* C5 as claimed: the build succeeds iff the slices are sorted by start and
\* pairwise non-overlapping; sorted with an overlap fails with
\* DataSliceOverlap; any list with a slice starting after a later one fails
\* with DataSliceOutOfOrder (stated for the requests whose offset + length do
\* not overflow).
C5_Original ==
    NoSliceOverflow =>
        LET rs == RequestRanges
        IN /\ IsOk(filter) <=> (SortedByStart(rs) /\ StartsAfterEarlierEnds(rs))
           /\ (SortedByStart(rs) /\ ~StartsAfterEarlierEnds(rs))
                  => filter = Err("CreateDataSliceOverlap")
           /\ ~SortedByStart(rs) => filter = Err("CreateDataSliceOutOfOrder")

\* C5 amended: the build succeeds iff the slices are sorted by start and no
\* slice starts before the end of an earlier one (adjacent slices pass); it
\* fails with the error of the first defective slice in list order:
\* DataSliceOutOfOrder when that slice starts after a later one, else
\* DataSliceOverlap; so a sorted list with an overlap fails with
\* DataSliceOverlap. A build with overflow checks panics when an
\* offset + length overflows. Nothing is dispatched without a filter.
C5_SliceValidation ==
    LET rs == RequestRanges
    IN IF overflow_checks /\ ~NoSliceOverflow THEN filter = Panic
       ELSE /\ IsOk(filter) <=> (SortedByStart(rs) /\ StartsAfterEarlierEnds(rs))
            /\ IsOk(filter) => filter.val.accounts_data_slice = rs
            /\ ~IsOk(filter) =>
                  /\ filter = IF \E j \in 1..Len(rs) :
                                    FirstDefective(rs) < j
                                    /\ rs[FirstDefective(rs)].start > rs[j].start
                              THEN Err("CreateDataSliceOutOfOrder")
                              ELSE Err("CreateDataSliceOverlap")
                  /\ message = None
            /\ (SortedByStart(rs) /\ ~StartsAfterEarlierEnds(rs))
                  => filter = Err("CreateDataSliceOverlap")

\* a list that is not sorted by start was refused as overlapping
C5_Witness ==
    /\ NoSliceOverflow
    /\ ~SortedByStart(RequestRanges)
    /\ filter = Err("CreateDataSliceOverlap")


-----------------------------------------------------------------------------
(* Restrictive limits: one transaction filter or one blocks filter built under
   limits that forbid match-all filters and block sections *)

TransactionLimits ==
    {[FilterLimits_default EXCEPT !.transactions.any = ta, !.transactions_status.any = tsa] :
        ta \in BOOLEAN, tsa \in BOOLEAN}

BlockLimits ==
    {[FilterLimits_default EXCEPT !.blocks.include_transactions = bt,
                                  !.blocks.include_accounts = ba,
                                  !.blocks.include_entries = be] :
        bt \in BOOLEAN, ba \in BOOLEAN, be \in BOOLEAN}

CriteriaTxFilters ==
    {TxFilter(v, f, sg, inc, exc, req) :
        v \in {None, Some(TRUE)}, f \in {None, Some(FALSE)}, sg \in {None, Some("s1")},
        inc \in {<<>>, <<1>>}, exc \in {<<>>, <<2>>}, req \in {<<>>, <<3>>}}

LimitedTxRequests ==
    {[EmptyRequest EXCEPT !.transactions = m] : m \in OneName(CriteriaTxFilters)}
    \cup {[EmptyRequest EXCEPT !.transactions_status = m] : m \in OneName(CriteriaTxFilters)}

LimitedBlockRequests ==
    {[EmptyRequest EXCEPT !.blocks = m] :
        m \in OneName({BlockFilter(inc, t, a, e) :
                          inc \in {<<>>, <<1>>}, t \in OptBool, a \in OptBool, e \in OptBool})}

LimitedTransactionMessages ==
    {[kind |-> "Transaction", msg |-> MessageTransaction_from_geyser(info, 1)] :
        info \in {i \in GeyserTransactionInfos :
                     i.signature = "s1" /\ i.loaded_writable = <<>> /\ i.loaded_readonly = <<>>}}

LimitedBlockMessages ==
    {[kind |-> "Block",
      msg |-> MessageBlock_new(BlockMeta(1, Len(txs), Len(ents)), txs, accs, ents)] :
        txs \in {<<>>, <<BlockTransaction("s1", <<1>>, 0)>>},
        accs \in {<<AccountInfo(1, 2, 1, <<>>, None)>>},
        ents \in {<<>>, <<MessageEntry(1, 0)>>}}

InitLimits ==
    \/ InitWith(LimitedTxRequests, TransactionLimits, {FALSE}, {<<"a", "b">>})
    \/ InitWith(LimitedBlockRequests, BlockLimits, {FALSE}, {<<"a", "b">>})

OnLimitedTransaction ==
    \E m \in LimitedTransactionMessages : Dispatch(m, SessionCommitment(filter.val))

OnLimitedBlock ==
    \E m \in LimitedBlockMessages : Dispatch(m, SessionCommitment(filter.val))

NextLimits == OnLimitedTransaction \/ OnLimitedBlock

SpecLimits == InitLimits /\ [][NextLimits]_vars

\* a transaction filter that declares no criterion at all
NoCriterion(f) ==
    /\ f.vote = None
    /\ f.failed = None
    /\ f.signature = None
    /\ f.account_include = <<>>
    /\ f.account_exclude = <<>>
    /\ f.account_required = <<>>

\* C15: with transactions.any (transactions_status.any) disabled, the build of
\* a transaction (status) filter fails with AnyNotAllowed exactly when vote,
\* failed and signature are absent and the three account lists are empty; a
\* filter with at least one criterion, a signature alone included, builds.
C15_AnyNotAllowed ==
    /\ \A n \in DOMAIN request.transactions :
           ~limits.transactions.any =>
               /\ filter = Err("AnyNotAllowed") <=> NoCriterion(request.transactions[n])
               /\ ~NoCriterion(request.transactions[n]) => IsOk(filter)
    /\ \A n \in DOMAIN request.transactions_status :
           ~limits.transactions_status.any =>
               /\ filter = Err("AnyNotAllowed") <=> NoCriterion(request.transactions_status[n])
               /\ ~NoCriterion(request.transactions_status[n]) => IsOk(filter)


TransactionsRefused == Err("CreateBlocksNotAllowed(transactions)")
AccountsRefused == Err("CreateBlocksNotAllowed(accounts)")
EntriesRefused == Err("CreateBlocksNotAllowed(entries)")

\* C16 as stated: with the limit false, the build is refused for transactions
\* (accounts) only when the request sets the flag to true.
C16_Original ==
    \A n \in DOMAIN request.blocks :
        LET f == request.blocks[n]
        IN /\ filter = TransactionsRefused
                  <=> ~limits.blocks.include_transactions /\ f.include_transactions = Some(TRUE)
           /\ filter = AccountsRefused
                  <=> /\ ~limits.blocks.include_accounts /\ f.include_accounts = Some(TRUE)
                      /\ filter # TransactionsRefused

\* C16: with the limit blocks.include_transactions false the build of a blocks
\* filter is refused for transactions unless the request sets the flag to
\* false, an absent flag included; with the limit blocks.include_accounts false
\* it is refused for accounts only when the request sets that flag to true;
\* with a limit true its flag never refuses, and a built filter passed both.
C16_BlockPermissionFlags ==
    \A n \in DOMAIN request.blocks :
        LET f == request.blocks[n]
        IN /\ filter = TransactionsRefused
                  <=> ~limits.blocks.include_transactions /\ f.include_transactions # Some(FALSE)
           /\ filter = AccountsRefused
                  <=> /\ ~limits.blocks.include_accounts /\ f.include_accounts = Some(TRUE)
                      /\ filter # TransactionsRefused
           /\ IsOk(filter) =>
                  /\ limits.blocks.include_transactions \/ f.include_transactions = Some(FALSE)
                  /\ limits.blocks.include_accounts \/ f.include_accounts # Some(TRUE)

\* a request that leaves include_transactions out was refused under the limit
C16_Witness ==
    /\ "a" \in DOMAIN request.blocks
    /\ request.blocks["a"].include_transactions = None
    /\ ~limits.blocks.include_transactions
    /\ filter = TransactionsRefused

\* C17: a request with include_entries = true (its other flags allowed) builds
\* iff the limit blocks.include_entries is true, whatever the limit
\* blocks.include_accounts.
C17_EntriesOwnPermission ==
    \A n \in DOMAIN request.blocks :
        LET f == request.blocks[n]
        IN (/\ f.include_entries = Some(TRUE)
            /\ filter # TransactionsRefused
            /\ filter # AccountsRefused)
               => (IsOk(filter) <=> limits.blocks.include_entries)


-----------------------------------------------------------------------------
(* The subscription session: AwaitingInitial -> Active -> Closing. The session
   compiles every request frame, holds the last filter that compiled, takes
   the upstream messages the hub enqueued and writes the updates of the
   installed filter to the client. *)

\* most requests and messages one session handles
MaxEvents == 4
\* capacity of the queue between the hub and the session
QueueSize == 2

SessionRequests ==
    {[EmptyRequest EXCEPT !.slots = NamedA(SlotFilter(None))],
     [EmptyRequest EXCEPT !.accounts = NamedB(AnyAccount), !.ping = Some([id |-> 7])],
     [EmptyRequest EXCEPT !.slots = NamedA(SlotFilter(None)), !.commitment = Some(9)],
     [EmptyRequest EXCEPT !.accounts = NamedA(AccountsFilter(None, <<>>, <<>>, <<PredNone>>)),
                          !.ping = Some([id |-> 3])]}

SessionMessages ==
    {[kind |-> "Slot",
      msg |-> [slot |-> 1, parent |-> None, status |-> "Processed", dead_error |-> None]],
     [kind |-> "Slot",
      msg |-> [slot |-> 1, parent |-> None, status |-> "Confirmed", dead_error |-> None]],
     AccountMessage(AccountInfo(1, 2, 1, <<>>, None))}

\* the request the reference client sends in reply to a server Ping
KeepAliveRequests == {[EmptyRequest EXCEPT !.ping = Some([id |-> 1])]}

ErrorFrame(err) == [filters |-> {}, update_oneof |-> [kind |-> "Error", err |-> err]]

\* the frames a session writes when it installs filter f
PongFrames(f) ==
    IF IsSome(Filter_get_pong_msg(f)) THEN <<Unwrap(Filter_get_pong_msg(f))>> ELSE <<>>

\* installing a filter over the one held
SwapFilter_sections(old, new) ==
    IF old = None THEN Some(new) ELSE Some([new EXCEPT !.slots = Unwrap(old).slots])

SwapFilter(old, new) == Some(new)

\* a ping leaves the filter held in place
KeepFilter(old, new) == old

\* the state after a request that did not compile
AfterFailure_closing(st) == "Closing"

AfterFailure(st) == IF st = "AwaitingInitial" THEN "Closing" ELSE "Active"

InitSession ==
    /\ overflow_checks = FALSE
    /\ map_order = <<"a", "b">>
    /\ limits = FilterLimits_default
    /\ request = EmptyRequest
    /\ filter = NotYet
    /\ message = None
    /\ commitment = None
    /\ pairs = NotYet
    /\ updates = NotYet
    /\ session_state = "AwaitingInitial"
    /\ installed = None
    /\ queue = <<>>
    /\ wire = <<>>
    /\ history = <<>>
    /\ enqueued = <<>>
    /\ hub = NotYet
    /\ client = NotYet

\* AwaitingInitial / Active + RequestFrame(req)
RequestFrame ==
    \E req \in SessionRequests :
        LET built == Filter_new(req, limits, map_order, overflow_checks)
        IN /\ session_state \in {"AwaitingInitial", "Active"}
           /\ Len(history) < MaxEvents
           /\ request' = req
           /\ filter' = built
           /\ IF IsOk(built)
              THEN /\ session_state' = "Active"
                   /\ installed' = SwapFilter(installed, built.val)
                   /\ wire' = wire \o PongFrames(built.val)
                   /\ history' = Append(history, [ev |-> "install", filter |-> built.val])
              ELSE /\ session_state' = AfterFailure(session_state)
                   /\ installed' = installed
                   /\ wire' = Append(wire, ErrorFrame(built.err))
                   /\ history' = Append(history, [ev |-> "reject", err |-> built.err])
           /\ UNCHANGED <<hub, client, overflow_checks, map_order, limits, message, commitment, pairs,
                          updates, queue, enqueued>>

\* Active + ClientPing(id): a request with a ping and no filter is answered
ClientPing ==
    \E req \in KeepAliveRequests :
        LET built == Filter_new(req, limits, map_order, overflow_checks)
        IN /\ session_state = "Active"
           /\ Len(history) < MaxEvents
           /\ IsOk(built)
           /\ request' = req
           /\ filter' = built
           /\ installed' = KeepFilter(installed, built.val)
           /\ wire' = wire \o PongFrames(built.val)
           /\ history' = Append(history, [ev |-> "ping", filter |-> built.val])
           /\ UNCHANGED <<hub, client, overflow_checks, map_order, limits, message, commitment, pairs,
                          updates, session_state, queue, enqueued>>

\* the message joins the queue ahead of those waiting
Enqueue_front(q, m) == <<m>> \o q

\* the bounded queue of a session is first in, first out
Enqueue(q, m) == Append(q, m)

\* the hub enqueues an upstream message for the Active session
HubDeliver ==
    \E m \in SessionMessages :
        /\ session_state = "Active"
        /\ Len(queue) < QueueSize
        /\ Len(history) + Len(queue) < MaxEvents
        /\ queue' = Enqueue(queue, m)
        /\ enqueued' = Append(enqueued, m)
        /\ UNCHANGED <<hub, client, overflow_checks, map_order, limits, request, filter, message,
                       commitment, pairs, updates, session_state, installed, wire, history>>

\* Active + BackpressureExceeded: the queue is full when the hub delivers
BackpressureExceeded ==
    /\ session_state = "Active"
    /\ Len(queue) = QueueSize
    /\ session_state' = "Closing"
    /\ UNCHANGED <<hub, client, overflow_checks, map_order, limits, request, filter, message,
                   commitment, pairs, updates, installed, queue, wire, history, enqueued>>

\* Active + UpstreamMessage(m): the dispatcher runs on the oldest message
UpstreamMessage ==
    /\ session_state = "Active"
    /\ queue # <<>>
    /\ LET m == Head(queue)
           f == Unwrap(installed)
           c == SessionCommitment(f)
           us == Filter_get_update(f, m, c, map_order, overflow_checks)
       IN /\ IsOk(us)
          /\ message' = Some(m)
          /\ commitment' = c
          /\ pairs' = Filter_get_filters(f, m, c, map_order, overflow_checks)
          /\ updates' = us
          /\ wire' = wire \o us.val
          /\ history' = Append(history, [ev |-> "handle", m |-> m])
    /\ queue' = Tail(queue)
    /\ UNCHANGED <<hub, client, overflow_checks, map_order, limits, request, filter, session_state,
                   installed, enqueued>>

\* Any + ClientDisconnect / UpstreamEnd
ClientDisconnect ==
    /\ session_state \in {"AwaitingInitial", "Active"}
    /\ session_state' = "Closing"
    /\ UNCHANGED <<hub, client, overflow_checks, map_order, limits, request, filter, message,
                   commitment, pairs, updates, installed, queue, wire, history, enqueued>>

NextSession ==
    \/ RequestFrame
    \/ ClientPing
    \/ HubDeliver
    \/ BackpressureExceeded
    \/ UpstreamMessage
    \/ ClientDisconnect

SpecSession == InitSession /\ [][NextSession]_vars

\* the step that appended an event of the given kind to the history
Handled(ev) ==
    /\ Len(history') = Len(history) + 1
    /\ history'[Len(history')].ev = ev

\* the frames the events h call for, the filter cur being held: every message
\* is matched by the whole filter of the last install before it
RECURSIVE Replay(_, _)
Replay(h, cur) ==
    IF h = <<>> THEN <<>>
    ELSE LET e == Head(h)
         IN CASE e.ev = "install" ->
                    (IF IsSome(e.filter.ping)
                     THEN <<[filters |-> {},
                             update_oneof |-> [kind |-> "Pong", id |-> Unwrap(e.filter.ping)]]>>
                     ELSE <<>>) \o Replay(Tail(h), Some(e.filter))
              [] e.ev = "ping" ->
                    <<[filters |-> {},
                       update_oneof |-> [kind |-> "Pong", id |-> Unwrap(e.filter.ping)]]>>
                        \o Replay(Tail(h), cur)
              [] e.ev = "reject" -> <<ErrorFrame(e.err)>> \o Replay(Tail(h), cur)
              [] e.ev = "handle" ->
                    Filter_get_update(Unwrap(cur), e.m, SessionCommitment(Unwrap(cur)),
                                      map_order, overflow_checks).val
                        \o Replay(Tail(h), cur)

SelectEvents(h, kinds) == SelectSeq(h, LAMBDA e : e.ev \in kinds)
IsErrorFrame(u) == u.update_oneof.kind = "Error"
IsPongFrame(u) == u.update_oneof.kind = "Pong"

\* C18: a compiled filter yields a pong message iff its request carried a
\* ping, a Pong of that id with an empty filter list; the session writes it in
\* the step that installs the filter, hence before every update matched under
\* that filter, and a request without ping writes no Pong.
C18_PingPong ==
    /\ [](IsOk(filter) =>
             Filter_get_pong_msg(filter.val)
                 = IF IsSome(request.ping)
                   THEN Some([filters |-> {},
                              update_oneof |-> [kind |-> "Pong", id |-> Unwrap(request.ping).id]])
                   ELSE None)
    /\ [][Handled("install") =>
             /\ installed' = Some(filter'.val)
             /\ wire' = wire \o (IF IsSome(request'.ping)
                                 THEN <<[filters |-> {},
                                         update_oneof |-> [kind |-> "Pong",
                                                           id |-> Unwrap(request'.ping).id]]>>
                                 ELSE <<>>)]_vars
    /\ [][(~Handled("install") /\ ~Handled("ping")) =>
             SelectSeq(wire', IsPongFrame) = SelectSeq(wire, IsPongFrame)]_vars

\* the Pong of the request with ping 7 was written, then an update of its filter
C18_Witness ==
    /\ Len(wire) >= 2
    /\ wire[1] = [filters |-> {}, update_oneof |-> [kind |-> "Pong", id |-> 7]]
    /\ wire[2].filters = {"b"}
    /\ history[1].ev = "install"

\* C19: a request that does not compile leaves an Active session Active with
\* the installed filter, the queue and the frames written so far unchanged
\* and writes one error; the updates written are those of the history with the
\* failed requests left out.
C19_FailedBuildKeepsFilter ==
    /\ [][(Handled("reject") /\ session_state = "Active") =>
             /\ session_state' = "Active"
             /\ installed' = installed
             /\ queue' = queue
             /\ wire' = Append(wire, ErrorFrame(filter'.err))]_vars
    /\ [](SelectSeq(wire, LAMBDA u : ~IsErrorFrame(u))
              = Replay(SelectEvents(history, {"install", "handle", "ping"}), None))

\* after a failed request in Active a message was matched by the filter held
C19_Witness ==
    /\ session_state = "Active"
    /\ Len(history) = 3
    /\ history[1].ev = "install" /\ history[2].ev = "reject" /\ history[3].ev = "handle"
    /\ Len(wire) = 2
    /\ IsErrorFrame(wire[1])
    /\ wire[2].filters = {"a"}

\* C20: the frames written are those of the history, every message matched by
\* the whole filter of the last install before it; an install leaves the
\* queue and the frames already written as they are.
C20_AtomicReplacement ==
    /\ [](wire = Replay(history, None))
    /\ [](IsSome(installed) =>
             LET installs == SelectEvents(history, {"install"})
             IN installed = Some(installs[Len(installs)].filter))
    /\ [][Handled("install") =>
             /\ queue' = queue
             /\ SubSeq(wire', 1, Len(wire)) = wire]_vars

\* a message matched by one filter, a replacement, and a second message
\* matched by the new filter
C20_Witness ==
    /\ Len(history) = 4
    /\ history[1].ev = "install" /\ history[2].ev = "handle"
    /\ history[3].ev = "install" /\ history[4].ev = "handle"
    /\ history[1].filter # history[3].filter
    /\ wire[1].filters = {"a"}
    /\ wire[Len(wire)].filters = {"b"}
    /\ Len(wire) = 3


-----------------------------------------------------------------------------
(* Integer width: slices and memcmp offsets near the end of the word *)

\* C27: every slice of a built filter has start <= end with end the true sum
\* offset + length, also when that sum exceeds the integer width, and the
\* projection of every account under a built slice list completes.
C27_SliceEndNotBeforeStart ==
    /\ IsOk(filter) =>
           \A i \in 1..Len(request.accounts_data_slice) :
               LET s == request.accounts_data_slice[i]
                   r == filter.val.accounts_data_slice[i]
               IN /\ r.start <= r.end
                  /\ r.end = s.offset + s.length
    /\ Dispatched("Account") => IsOk(updates)


\* C28: for every memcmp predicate of a built filter and every account data,
\* is_match completes with a boolean, and with false whenever offset +
\* len(bytes), the true sum, is larger than the length of the data.
C28_MemcmpInsideData ==
    Dispatched("Account") =>
        \A n \in DOMAIN request.accounts :
            LET info == Unwrap(message).msg.account
                st == filter.val.accounts.filters[n]
                res == FilterAccountsState_is_match(st, info.data, info.lamports,
                                                    overflow_checks)
            IN /\ res \in {Ok(TRUE), Ok(FALSE)}
               /\ (\E i \in 1..Len(st.memcmp) :
                       st.memcmp[i].offset + Len(st.memcmp[i].bytes) > Len(info.data))
                      => res = Ok(FALSE)


-----------------------------------------------------------------------------
(* Commitment and rebuilt filters, over the whole filter *)

\* the commitment fields of a request that Filter::new accepts
AcceptedCommitments == {None, Some(0), Some(1), Some(2)}

Rebuilt(req) == Filter_new(req, limits, map_order, overflow_checks)

\* C24: for every message that is not a slot message, the pairs and the
\* updates are the same for every commitment argument and for every
\* commitment level stored in the filter.
C24_CommitmentGatesSlotsOnly ==
    (DispatchedAny /\ Unwrap(message).kind # "Slot") =>
        /\ \A c \in CommitmentArguments :
               /\ Filter_get_filters(filter.val, Unwrap(message), c, map_order,
                                     overflow_checks) = pairs
               /\ Filter_get_update(filter.val, Unwrap(message), c, map_order,
                                    overflow_checks) = updates
        /\ \A cm \in AcceptedCommitments :
               LET other == Rebuilt([request EXCEPT !.commitment = cm])
               IN /\ IsOk(other)
                  /\ Filter_get_filters(other.val, Unwrap(message), commitment, map_order,
                                        overflow_checks) = pairs
                  /\ Filter_get_update(other.val, Unwrap(message), commitment, map_order,
                                       overflow_checks) = updates

\* an entry was delivered under a commitment argument that is not the level
\* of the filter
C24_Witness ==
    /\ DispatchedAny
    /\ Unwrap(message).kind = "Entry"
    /\ commitment = None
    /\ filter.val.commitment = "Confirmed"
    /\ IsOk(updates) /\ Len(updates.val) = 1


\* the updates of a Result as a bag, a panic as itself
UpdateBag(r) ==
    IF IsOk(r) THEN [u \in Range(r.val) |-> Cardinality({i \in DOMAIN r.val : r.val[i] = u})]
    ELSE r

-----------------------------------------------------------------------------
(* What block projection leaves alone *)

\* s is t with some elements left out, the others in the order of t
RECURSIVE IsSubSequence(_, _)
IsSubSequence(s, t) ==
    IF s = <<>> THEN TRUE
    ELSE IF t = <<>> THEN FALSE
    ELSE IF Head(s) = Head(t) THEN IsSubSequence(Tail(s), Tail(t))
    ELSE IsSubSequence(s, Tail(t))

\* C30: every projected block of a dispatched block has the meta and the
\* updated_account_count of the original; its transactions, accounts and
\* entries are sub-sequences of the original lists; and the original is one
\* of the blocks ingested, as it was before the projection.
C30_BlockProjectionFrame ==
    Dispatched("Block") =>
        LET block == Unwrap(message).msg
        IN /\ IsOk(pairs)
           /\ Unwrap(message) \in BlockMessages
           /\ \A i \in 1..Len(pairs.val) :
                  LET p == pairs.val[i].msg
                  IN /\ p.meta = block.meta
                     /\ p.updated_account_count = block.updated_account_count
                     /\ IsSubSequence(p.transactions, block.transactions)
                     /\ IsSubSequence(p.accounts, block.accounts)
                     /\ IsSubSequence(p.entries, block.entries)

\* a block with accounts was projected by a filter that keeps none of them
C30_Witness ==
    /\ Dispatched("Block")
    /\ IsOk(pairs)
    /\ \E i \in 1..Len(pairs.val) :
           /\ pairs.val[i].msg.accounts = <<>>
           /\ pairs.val[i].msg.updated_account_count > 0
           /\ Len(pairs.val[i].msg.transactions) < Len(Unwrap(message).msg.transactions)


-----------------------------------------------------------------------------
(* Messages from the ingestion callback and from wire updates *)

WireRequests ==
    {[EmptyRequest EXCEPT !.transactions = NamedA(TxFilter(None, None, None, <<1>>, <<>>, <<>>))],
     [EmptyRequest EXCEPT !.transactions = NamedA(TxFilter(None, None, None, <<>>, <<>>, <<3>>)),
                          !.blocks = NamedB(BlockFilter(<<1>>, None, None, None))],
     [EmptyRequest EXCEPT !.blocks = NamedB(BlockFilter(<<2>>, Some(TRUE), None, None))]}

WireTransactionInfos ==
    {as_proto_transaction(MessageTransactionInfo_from_geyser(info)) :
        info \in GeyserTransactionInfos}

\* SubscribeUpdateTransaction
WireTransactions ==
    {[kind |-> "Transaction", transaction |-> Some(tx), slot |-> 1] :
        tx \in WireTransactionInfos}
    \cup {[kind |-> "Transaction", transaction |-> None, slot |-> 1]}

\* SubscribeUpdateBlock
WireBlocks ==
    {[kind |-> "Block", slot |-> 1, blockhash |-> "h", parent_slot |-> 0,
      executed_transaction_count |-> Len(txs), entries_count |-> 0,
      transactions |-> [i \in 1..Len(txs) |-> as_proto_transaction(txs[i])],
      updated_account_count |-> 0, accounts |-> <<>>, entries |-> <<>>] :
        txs \in BlockTransactionLists}

WireOthers == {[kind |-> "Ping"], [kind |-> "Pong"], [kind |-> "TransactionStatus"]}

InitWire == InitWith(WireRequests, {FilterLimits_default}, {FALSE}, {<<"a", "b">>})

\* a transaction notified by the validator
OnGeyserTransaction ==
    \E info \in GeyserTransactionInfos :
        Dispatch([kind |-> "Transaction", msg |-> MessageTransaction_from_geyser(info, 1)],
                 SessionCommitment(filter.val))

\* an update read from an upstream stream and turned into a message
OnWireUpdate ==
    \E oneof \in WireTransactions \cup WireBlocks \cup WireOthers :
        LET m == Message_from_update_oneof(oneof)
        IN /\ IsOk(m)
           /\ Dispatch(m.val, SessionCommitment(filter.val))

NextWire == OnGeyserTransaction \/ OnWireUpdate

SpecWire == InitWire /\ [][NextWire]_vars

\* the key set of a record is the union of its static and loaded addresses
KeysClosed(tx) == tx.account_keys = fill_account_keys(tx).account_keys

\* C23: every transaction record handed to the filter, standalone or in a
\* block, has account_keys equal to the union of its static keys, its loaded
\* writable addresses and its loaded read-only addresses.
C23_AccountKeysClosed ==
    /\ Dispatched("Transaction") => KeysClosed(Unwrap(message).msg.transaction)
    /\ Dispatched("Block") =>
           \A i \in 1..Len(Unwrap(message).msg.transactions) :
               KeysClosed(Unwrap(message).msg.transactions[i])


-----------------------------------------------------------------------------
(* The keep-alive ping of the reference client *)

KeepAlivePong == [filters |-> {}, update_oneof |-> [kind |-> "Pong", id |-> 1]]

-----------------------------------------------------------------------------
(* Order of the frames of one session *)

\* what tells the messages of the session apart, read off a message ...
MessageKey(m) ==
    IF m.kind = "Slot"
    THEN [kind |-> "Slot", slot |-> m.msg.slot, status |-> CommitmentLevel_as_i32(m.msg.status)]
    ELSE [kind |-> m.kind]

\* ... and off the update written for it
FrameKey(u) ==
    IF u.update_oneof.kind = "Slot"
    THEN [kind |-> "Slot", slot |-> u.update_oneof.slot, status |-> u.update_oneof.status]
    ELSE [kind |-> u.update_oneof.kind]

IsUpdateFrame(u) == ~IsErrorFrame(u) /\ ~IsPongFrame(u)

MapSeq(F(_), s) == [i \in 1..Len(s) |-> F(s[i])]

\* C22: the session takes the messages in the order the hub enqueued them,
\* none skipped; the updates on the wire, each traced to its message, are a
\* sub-sequence of the messages enqueued, so that two updates, and two slot
\* updates of one slot in particular, are never in the opposite order to
\* their messages.
C22_PerSessionOrder ==
    /\ [](MapSeq(LAMBDA e : e.m, SelectEvents(history, {"handle"})) \o queue = enqueued)
    /\ [](IsSubSequence(MapSeq(FrameKey, SelectSeq(wire, IsUpdateFrame)),
                        MapSeq(MessageKey, enqueued)))
    /\ [][Handled("handle") =>
             /\ message' = Some(Head(queue))
             /\ wire' = wire \o updates'.val]_vars

\* the Confirmed and the Processed update of slot 1 were written in the
\* order of their messages, an account message between them giving no update
C22_Witness ==
    /\ Len(enqueued) = 3
    /\ MapSeq(MessageKey, enqueued)
           = <<[kind |-> "Slot", slot |-> 1, status |-> 1], [kind |-> "Account"],
               [kind |-> "Slot", slot |-> 1, status |-> 0]>>
    /\ queue = <<>>
    /\ MapSeq(FrameKey, SelectSeq(wire, IsUpdateFrame))
           = <<[kind |-> "Slot", slot |-> 1, status |-> 1],
               [kind |-> "Slot", slot |-> 1, status |-> 0]>>


-----------------------------------------------------------------------------
(* The fan-out hub: one producer, a bounded queue per session. The hub hands
   each upstream message to every Active session without waiting; a session
   takes from its own queue at its own pace. *)

\* sessions connected to the hub
NumSessions == 2
\* most upstream messages the hub accepts
MaxUpstream == 4

SessionIds == 1..NumSessions

\* the upstream messages of the hub: the two statuses of one slot
HubMessages == {m \in SessionMessages : m.kind = "Slot"}

\* the hub waits for room: nobody gets the message while some queue is full
HubSend_blocking(sessions, m) ==
    IF \E i \in SessionIds :
           sessions[i].state = "Active" /\ Len(sessions[i].queue) >= QueueSize
    THEN sessions
    ELSE [i \in SessionIds |->
             IF sessions[i].state = "Active"
             THEN [sessions[i] EXCEPT !.queue = Append(@, m)]
             ELSE sessions[i]]

\* one delivery round: a full queue marks its session lagging and closes it,
\* every other Active session gets the message
HubSend(sessions, m) ==
    [i \in SessionIds |->
        IF sessions[i].state # "Active" THEN sessions[i]
        ELSE IF Len(sessions[i].queue) >= QueueSize
        THEN [sessions[i] EXCEPT !.state = "Closing", !.lagging = TRUE]
        ELSE [sessions[i] EXCEPT !.queue = Append(@, m)]]

InitHub ==
    /\ overflow_checks = FALSE
    /\ map_order = <<"a", "b">>
    /\ limits = FilterLimits_default
    /\ request = EmptyRequest
    /\ filter = NotYet
    /\ message = None
    /\ commitment = None
    /\ pairs = NotYet
    /\ updates = NotYet
    /\ session_state = "Detached"
    /\ installed = <<>>
    /\ queue = <<>>
    /\ wire = <<>>
    /\ history = <<>>
    /\ enqueued = <<>>
    /\ client = NotYet
    /\ hub = [sessions |-> [i \in SessionIds |->
                               [state |-> "Active", queue |-> <<>>, lagging |-> FALSE,
                                taken |-> <<>>]],
              accepted |-> <<>>]

\* the hub takes the next upstream message and delivers it
HubAccept ==
    \E m \in HubMessages :
        /\ Len(hub.accepted) < MaxUpstream
        /\ hub' = [sessions |-> HubSend(hub.sessions, m),
                   accepted |-> Append(hub.accepted, m)]
        /\ UNCHANGED <<filter_vars, session_vars, client>>

\* session i takes the oldest message of its queue
SessionTake(i) ==
    /\ hub.sessions[i].state = "Active"
    /\ hub.sessions[i].queue # <<>>
    /\ hub' = [hub EXCEPT !.sessions[i].queue = Tail(@),
                          !.sessions[i].taken = Append(@, Head(hub.sessions[i].queue))]
    /\ UNCHANGED <<filter_vars, session_vars, client>>

\* the client of session i goes away
SessionLeave(i) ==
    /\ hub.sessions[i].state = "Active"
    /\ hub' = [hub EXCEPT !.sessions[i].state = "Closing"]
    /\ UNCHANGED <<filter_vars, session_vars, client>>

NextHub ==
    \/ HubAccept
    \/ \E i \in SessionIds : SessionTake(i)
    \/ \E i \in SessionIds : SessionLeave(i)

SpecHub == InitHub /\ [][NextHub]_vars

IsFull(sess) == sess.state = "Active" /\ Len(sess.queue) >= QueueSize

\* C21: the hub accepts the next upstream message whatever the state of the
\* queues; in the step that delivers a message, each Active session with a
\* full queue, and no other session, becomes lagging and Closing with its
\* queue as it was, and each other Active session stays Active with the
\* message at the end of its queue; a session is lagging only if it was
\* closed on a full queue.
C21_BackpressureIsolation ==
    /\ [](hub # NotYet /\ Len(hub.accepted) < MaxUpstream => ENABLED HubAccept)
    /\ [][Len(hub'.accepted) = Len(hub.accepted) + 1 =>
             \A i \in SessionIds :
                 LET old == hub.sessions[i]
                     new == hub'.sessions[i]
                     m == hub'.accepted[Len(hub'.accepted)]
                 IN /\ IsFull(old) =>
                           new = [old EXCEPT !.state = "Closing", !.lagging = TRUE]
                    /\ (old.state = "Active" /\ ~IsFull(old)) =>
                           new = [old EXCEPT !.queue = Append(old.queue, m)]
                    /\ old.state # "Active" => new = old]_vars
    /\ [](hub # NotYet =>
             \A i \in SessionIds :
                 hub.sessions[i].lagging =>
                     /\ hub.sessions[i].state = "Closing"
                     /\ Len(hub.sessions[i].queue) = QueueSize)

\* session 1 took nothing and was closed as lagging, while session 2 went on
\* to receive that message and the next
C21_Witness ==
    /\ hub # NotYet
    /\ hub.sessions[1].lagging /\ hub.sessions[1].taken = <<>>
    /\ hub.sessions[2].state = "Active"
    /\ Len(hub.accepted) = MaxUpstream
    /\ hub.sessions[2].taken \o hub.sessions[2].queue = hub.accepted


-----------------------------------------------------------------------------
(* The reference client (examples/rust/src/bin/client.rs): main runs one
   closure under retry(ExponentialBackoff::default(), ..). The closure
   connects, runs the action and returns Ok, a transient error (retry after
   the next interval) or a permanent error (retry gives up). *)

\* most connection attempts of one run
MaxAttempts == 4
\* most updates read from one stream
MaxItems == 3
\* first interval of the backoff schedule, in milliseconds
InitialIntervalMs == 500

RECURSIVE BackoffInterval(_)
\* the n-th interval of the schedule: 500 ms, then 1.5 times the one before
BackoffInterval(n) ==
    IF n <= 1 THEN InitialIntervalMs ELSE (BackoffInterval(n - 1) * 3) \div 2

\* the closure returned a transient error: retry sleeps, then runs it again
Transient(c) ==
    [c EXCEPT !.pc = "backoff", !.retries = @ + 1, !.delay = BackoffInterval(c.retries + 1)]

\* the closure returned Ok or a permanent error: retry returns it
Stopped(c, outcome) == [c EXCEPT !.pc = "stopped", !.outcome = outcome]

\* the stream yields Err(status): geyser_subscribe logs it and breaks
StreamError(c) == Stopped([c EXCEPT !.failed = TRUE], "ok")

InitClient ==
    /\ overflow_checks = FALSE
    /\ map_order = <<"a", "b">>
    /\ limits = FilterLimits_default
    /\ request = EmptyRequest
    /\ filter = NotYet
    /\ message = None
    /\ commitment = None
    /\ pairs = NotYet
    /\ updates = NotYet
    /\ session_state = "Detached"
    /\ installed = <<>>
    /\ queue = <<>>
    /\ wire = <<>>
    /\ history = <<>>
    /\ enqueued = <<>>
    /\ hub = NotYet
    /\ \E action \in {"Subscribe", "HealthCheck"}, builds \in BOOLEAN :
           client = [pc |-> "start", action |-> action, builds |-> builds,
                     attempts |-> 0, retries |-> 0, delay |-> 0, counter |-> 0,
                     failed |-> FALSE, outcome |-> "none"]

ClientStep(c) ==
    /\ client' = c
    /\ UNCHANGED <<filter_vars, session_vars, hub>>

\* args.connect() fails: a transient error
ConnectFails ==
    /\ client.pc = "start"
    /\ client.attempts < MaxAttempts
    /\ ClientStep(Transient([client EXCEPT !.attempts = @ + 1, !.failed = FALSE]))

ConnectOk ==
    /\ client.pc = "start"
    /\ client.attempts < MaxAttempts
    /\ ClientStep([client EXCEPT !.pc = "connected", !.attempts = @ + 1, !.failed = FALSE])

\* a unary action: its error is transient, its answer ends the run
UnaryAction ==
    /\ client.pc = "connected"
    /\ client.action # "Subscribe"
    /\ \E ok \in BOOLEAN :
           ClientStep(IF ok THEN Stopped(client, "ok") ELSE Transient(client))

\* get_subscribe_request fails: a permanent error
RequestNotBuilt ==
    /\ client.pc = "connected"
    /\ client.action = "Subscribe"
    /\ ~client.builds
    /\ ClientStep(Stopped(client, "permanent"))

\* subscribe_with_request: the stream opens, or the call fails
SubscribeCall ==
    /\ client.pc = "connected"
    /\ client.action = "Subscribe"
    /\ client.builds
    /\ \E ok \in BOOLEAN :
           ClientStep(IF ok THEN [client EXCEPT !.pc = "streaming", !.counter = 0]
                      ELSE Transient(client))

\* the stream yields an update: it is printed (a Ping is answered), the
\* counter advances and the resubscribe request is sent when it reaches
\* resub; an error on the way leaves geyser_subscribe by `?`
StreamUpdate ==
    /\ client.pc = "streaming"
    /\ client.counter < MaxItems
    /\ \E ok \in BOOLEAN :
           ClientStep(IF ok THEN [client EXCEPT !.counter = @ + 1]
                      ELSE Transient(client))

\* the stream yields an error item
StreamErrorItem ==
    /\ client.pc = "streaming"
    /\ ClientStep(StreamError(client))

\* the stream ends, or yields an update without update_oneof (break)
StreamEnd ==
    /\ client.pc = "streaming"
    /\ ClientStep(Stopped(client, "ok"))

\* the interval has passed: retry runs the closure again
RetryAfterDelay ==
    /\ client.pc = "backoff"
    /\ ClientStep([client EXCEPT !.pc = "start"])

NextClient ==
    \/ ConnectFails
    \/ ConnectOk
    \/ UnaryAction
    \/ RequestNotBuilt
    \/ SubscribeCall
    \/ StreamUpdate
    \/ StreamErrorItem
    \/ StreamEnd
    \/ RetryAfterDelay

SpecClient == InitClient /\ [][NextClient]_vars

\* C25: the client stops retrying only on a permanent error or after an
\* attempt that completed without failure; after a failed connection, a
\* failed call or an error item of the stream it is waiting out the next
\* interval of the schedule, or connecting again.
C25_ClientRecovery ==
    (client # NotYet /\ client.pc = "stopped") =>
        \/ client.outcome = "permanent"
        \/ client.outcome = "ok" /\ ~client.failed

====
